---- MODULE Spec2Model ----
(***************************************************************************)
(* Model of text/v2/gotextfacesource.go: a GoTextFaceSource owns one font  *)
(* handle, one shaping cache (outputCache) and a size-indexed map of glyph *)
(* image caches (glyphImageCache).  shape() memoizes shapeImpl() through   *)
(* the shaping cache; getOrCreateGlyphImage() lazily creates the image     *)
(* cache of a size and delegates to it.                                    *)
(*                                                                         *)
(* The generic cache (newCache / getOrCreate), GoTextFace.outputCacheKey   *)
(* and glyphVariationCount are called by the file but defined elsewhere;   *)
(* they are modelled from the design document (sections 3, 4.1, 5).        *)
(* The segmenter, the shaper and the font (SetVariations, GlyphData, Upem) *)
(* are external collaborators and are modelled by deterministic stubs      *)
(* whose results record the font state they observed.                      *)
(***************************************************************************)
EXTENDS Integers, Sequences, FiniteSets, TLC

VARIABLES
    sources,   \* g -> GoTextFaceSource struct value: [f, outputCache, glyphImageCache, addr]
    fonts,     \* font handle -> [variations]: the active variation configuration
    caches,    \* heap of cache instances, a cache id is an index
    maps,      \* heap of Go maps size -> cache id, a map id is an index (0 is nil)
    nalloc,    \* number of values allocated so far by shapeImpl and create callbacks
    hist,      \* completed calls of the sequential program, oldest first
    th,        \* per goroutine: the frame of its call in progress
    log,       \* accesses made to the stand-alone generic cache (CacheSpec)
    glfw       \* the Cocoa window layer of lines 282-2125: _glfw.ns, the windows,
               \* the monitor and the system's cursor

vars == <<sources, fonts, caches, maps, nalloc, hist, th, log, glfw>>

\* the variables of the text engine
engine == <<sources, fonts, caches, maps, nalloc, hist, th, log>>

----------------------------------------------------------------------------
(* Bounds *)

\* calls made by the sequential program
MaxOps == 3
\* goroutines of the concurrent program, one call each
NThreads == 2
\* accesses to the stand-alone generic cache
MaxLog == 4
\* largest capacity of the stand-alone generic cache
MaxCap == 2
\* the longest text, in scalars, given to the shaping pipeline on its own
MaxLen == 3
\* the most fonts in one font file, and the most load attempts
MaxFonts == 2
MaxLoads == 2

(* Program constants *)

outputCacheCapacity == 512
baseCapacity == 128

----------------------------------------------------------------------------
(* Small helpers *)

Last(s) == s[Len(s)]
Reverse(s) == [i \in 1..Len(s) |-> s[Len(s) + 1 - i]]

RECURSIVE Flatten(_)
Flatten(ss) == IF ss = <<>> THEN <<>> ELSE Head(ss) \o Flatten(Tail(ss))

\* insertion of a pair <<tag, value>> into a sequence sorted by tag
RECURSIVE SortedInsert(_, _)
SortedInsert(s, p) ==
    IF s = <<>> THEN <<p>>
    ELSE IF p[1] <= Head(s)[1] THEN <<p>> \o s
    ELSE <<Head(s)>> \o SortedInsert(Tail(s), p)

RECURSIVE Canon(_)
Canon(s) == IF s = <<>> THEN <<>> ELSE SortedInsert(Canon(Tail(s)), Head(s))

----------------------------------------------------------------------------
(* Input domains *)

\* Unicode scalars: 1 is "A" (Latin, 1 byte in UTF-8), 2 is "e-acute" (Latin,
\* 2 bytes), 3 is "alef" (Hebrew, 2 bytes), 4 is "e" (Latin, 1 byte), 5 is
\* the combining acute accent (2 bytes, takes the script of its base), 6 is
\* "?" (Latin, 1 byte), a scalar the shaper stub reports a wrong cluster for,
\* 7 is "o-umlaut" (Latin, 2 bytes), which the font draws with two glyphs
ByteLen(r) == IF r \in {1, 4, 6} THEN 1 ELSE 2
ScriptOf(r) == IF r = 3 THEN "Hebr" ELSE "Latn"

\* sizes are in units of 1/128 layout unit: 256 is 2.0, 512 is 4.0
\* axis and feature tags are numbered: axis 1 is wght, feature 1 is liga
BaseFace ==
    [Source     |-> 1,
     Size       |-> 256,
     Direction  |-> "LeftToRight",
     Language   |-> "en",
     Script     |-> "Latn",
     variations |-> <<<<1, 1>>>>,
     features   |-> <<<<1, 1>>>>]

Faces ==
    {BaseFace,
     [BaseFace EXCEPT !.Size = 512],
     [BaseFace EXCEPT !.Direction = "RightToLeft"],
     [BaseFace EXCEPT !.Language = "he"],
     [BaseFace EXCEPT !.Script = "Hebr"],
     [BaseFace EXCEPT !.variations = <<<<1, 2>>>>],
     [BaseFace EXCEPT !.features = <<<<1, 0>>>>]}

\* faces used for glyph image requests
ImageFaces ==
    {BaseFace,
     [BaseFace EXCEPT !.Size = 512],
     [BaseFace EXCEPT !.variations = <<<<1, 1>>, <<2, 1>>>>]}

\* a key struct that leaves the horizontal sub-pixel offset out
goTextGlyphImageCacheKeyNoXOffset(gid, xoffset, yoffset, variations) ==
    [gid |-> gid, xoffset |-> 0, yoffset |-> yoffset, variations |-> variations]

\* goTextGlyphImageCacheKey, lines 54-59
goTextGlyphImageCacheKey(gid, xoffset, yoffset, variations) ==
    [gid |-> gid, xoffset |-> xoffset, yoffset |-> yoffset, variations |-> variations]

ImageKeys ==
    {goTextGlyphImageCacheKey(1, 0, 0, <<<<1, 1>>>>),
     goTextGlyphImageCacheKey(2, 0, 0, <<<<1, 1>>>>)}

----------------------------------------------------------------------------
(* Cache keys of the shaping cache *)

\* goTextOutputCacheKey, lines 31-39: size is a float64 field
goTextOutputCacheKeyNoFeatures(text, direction, size, language, script, variations, features) ==
    [text |-> text, direction |-> direction, size |-> size, language |-> language,
     script |-> script, variations |-> variations, features |-> <<>>]

goTextOutputCacheKey(text, direction, size, language, script, variations, features) ==
    [text |-> text, direction |-> direction, size |-> size, language |-> language,
     script |-> script, variations |-> variations, features |-> features]

\* GoTextFace.outputCacheKey: every style field, variations and features as
\* canonical strings
outputCacheKey(face, text) ==
    goTextOutputCacheKey(text, face.Direction, face.Size, face.Language, face.Script,
                         Canon(face.variations), Canon(face.features))

\* glyphVariationCount: a positive count derived from the style
glyphVariationCount(face) == Len(face.variations)

----------------------------------------------------------------------------
(* The generic cache: a bounded key -> value store, least recently used    *)
(* entry evicted first.  An entry carries its access time; the cache       *)
(* carries a clock.  inflight is the set of keys being computed.           *)

newCache(n) == [cap |-> n, atime |-> 0, values |-> <<>>, inflight |-> {}]

CacheIndex(c, key) ==
    IF \E i \in 1..Len(c.values) : c.values[i].key = key
    THEN CHOOSE i \in 1..Len(c.values) : c.values[i].key = key
    ELSE 0

CacheHas(c, key) == CacheIndex(c, key) # 0
CacheValue(c, key) == c.values[CacheIndex(c, key)].value
CacheKeys(c) == {c.values[i].key : i \in 1..Len(c.values)}

\* a hit refreshes the entry's access time
CacheTouch(c, key) ==
    [c EXCEPT !.values[CacheIndex(c, key)].atime = c.atime, !.atime = c.atime + 1]

Oldest(vs) == CHOOSE i \in 1..Len(vs) : \A j \in 1..Len(vs) : vs[i].atime <= vs[j].atime
Newest(vs) == CHOOSE i \in 1..Len(vs) : \A j \in 1..Len(vs) : vs[i].atime >= vs[j].atime
RemoveAt(vs, i) == SubSeq(vs, 1, i - 1) \o SubSeq(vs, i + 1, Len(vs))

EvictNewest(vs) == RemoveAt(vs, Newest(vs))

Evict(vs) == RemoveAt(vs, Oldest(vs))

\* retain a computed value, evicting when the insertion would exceed the capacity
CacheInsert(c, key, value) ==
    IF c.cap = 0 THEN [c EXCEPT !.atime = c.atime + 1]
    ELSE LET kept == IF Len(c.values) >= c.cap THEN Evict(c.values) ELSE c.values
         IN  [c EXCEPT !.values = Append(kept, [key |-> key, value |-> value, atime |-> c.atime]),
                       !.atime = c.atime + 1]

\* getOrCreate(key, create) with create returning (value, cacheable):
\* [cache, value, hit]
getOrCreate(c, key, value, cacheable) ==
    IF CacheHas(c, key)
    THEN [cache |-> CacheTouch(c, key), value |-> CacheValue(c, key), hit |-> TRUE]
    ELSE [cache |-> IF cacheable THEN CacheInsert(c, key, value) ELSE c,
          value |-> value, hit |-> FALSE]

----------------------------------------------------------------------------
(* External collaborators, as deterministic stubs *)

\* float64ToFixed26_6: a size in 1/128 units to 26.6 fixed point (1/64 units),
\* the fraction below 1/64 is dropped
float64ToFixed26_6(size) == size \div 2

\* font.Face.Upem
Upem(f) == 2

\* a font map that resolves the scalars of one script to a fallback font
ResolveFaceByScript(s, r) == IF ScriptOf(r) = "Hebr" THEN 0 ELSE s.face

\* singleFontmap, lines 274-280: ResolveFace returns the one face for every
\* scalar
singleFontmap(f) == [face |-> f]

ResolveFace(s, r) == s.face

\* shaping.Segmenter.Split with the single-font fontmap: maximal runs of
\* scalars of one script, in text order; no run for an empty text
RECURSIVE RunEndFrom(_, _)
RunEndFrom(text, i) ==
    IF i < Len(text) /\ ScriptOf(text[i + 1]) = ScriptOf(text[i])
    THEN RunEndFrom(text, i + 1)
    ELSE i

RECURSIVE RunsFrom(_, _)
RunsFrom(text, i) ==
    IF i > Len(text) THEN <<>>
    ELSE LET e == RunEndFrom(text, i)
         IN  <<<<i - 1, e>>>> \o RunsFrom(text, e + 1)

Split(input, fontmap) ==
    LET runs == RunsFrom(input.Text, 1)
    IN  [k \in 1..Len(runs) |->
            [input EXCEPT !.RunStart = runs[k][1], !.RunEnd = runs[k][2],
                          !.Face = ResolveFace(fontmap, input.Text[runs[k][1] + 1])]]

\* the glyphs of the scalars i..e of the text in logical order: "e" followed
\* by the combining accent becomes the one glyph of "e-acute" with a cluster
\* of two scalars, "o-umlaut" becomes the two glyphs 1 and 2 of one cluster,
\* every other scalar one glyph with the scalar as glyph id; the cluster
\* index is the position of the cluster's first scalar in the whole text,
\* but for scalar 6 one that lies past the end of the text.
\* A glyph's vertical offset is twice its glyph id, in 26.6 fixed point.
RECURSIVE ShapedGlyphs(_, _, _)
ShapedGlyphs(text, i, e) ==
    IF i > e THEN <<>>
    ELSE IF text[i] = 4 /\ i < e /\ text[i + 1] = 5
    THEN <<[GlyphID |-> 2, ClusterIndex |-> i - 1, RuneCount |-> 2, YOffset |-> 2 * 128]>>
            \o ShapedGlyphs(text, i + 2, e)
    ELSE IF text[i] = 7
    THEN <<[GlyphID |-> 1, ClusterIndex |-> i - 1, RuneCount |-> 1, YOffset |-> 128],
           [GlyphID |-> 2, ClusterIndex |-> i - 1, RuneCount |-> 1, YOffset |-> 2 * 128]>>
            \o ShapedGlyphs(text, i + 1, e)
    ELSE <<[GlyphID      |-> text[i],
            ClusterIndex |-> IF text[i] = 6 THEN Len(text) + i ELSE i - 1,
            RuneCount    |-> 1,
            YOffset      |-> text[i] * 128]>>
            \o ShapedGlyphs(text, i + 1, e)

\* shaping.HarfbuzzShaper.Shape: the glyphs of the run in visual order.  The
\* output depends on the font's variation configuration that is active when
\* the shaper runs.
Shape(input, active) ==
    LET logical == ShapedGlyphs(input.Text, input.RunStart + 1, input.RunEnd)
    IN  [Direction  |-> input.Direction,
         Size       |-> input.Size,
         Script     |-> input.Script,
         Language   |-> input.Language,
         Features   |-> input.FontFeatures,
         RunStart   |-> input.RunStart,
         RunEnd     |-> input.RunEnd,
         Face       |-> input.Face,
         variations |-> active,
         Glyphs     |-> IF input.Direction = "RightToLeft" THEN Reverse(logical) ELSE logical]

\* di.Direction.IsSideways
IsSideways(direction) == direction = "TopToBottomSideways"

AxisSum(active) ==
    LET RECURSIVE Sum(_)
        Sum(s) == IF s = <<>> THEN 0 ELSE Head(s)[2] + Sum(Tail(s))
    IN  Sum(active)

Point(x, y) == [X |-> x, Y |-> y]
Segment(op, p) == [Op |-> op, Args |-> <<p, Point(0, 0), Point(0, 0)>>]

\* font.Face.GlyphData: glyph 1 has a filled outline, glyph 2 an SVG outline,
\* glyph 3 a bitmap without outline, glyph 4 a bitmap with an outline, glyph
\* 5 no data (nil); any other glyph has a filled outline.  hasOutline is
\* data.Outline != nil.  The outline is deformed by the font's variation
\* configuration that is active when it is read.
GlyphData(gid, active) ==
    LET segs == <<Segment("MoveTo", Point(gid, gid + AxisSum(active))),
                  Segment("LineTo", Point(gid + 1, AxisSum(active)))>>
    IN  CASE gid = 2 -> [kind |-> "GlyphSVG", hasOutline |-> TRUE, Segments |-> segs]
          [] gid = 3 -> [kind |-> "GlyphBitmap", hasOutline |-> FALSE, Segments |-> <<>>]
          [] gid = 4 -> [kind |-> "GlyphBitmap", hasOutline |-> TRUE, Segments |-> segs]
          [] gid = 5 -> [kind |-> "nil", hasOutline |-> FALSE, Segments |-> <<>>]
          [] OTHER   -> [kind |-> "GlyphOutline", hasOutline |-> TRUE, Segments |-> segs]

\* font.GlyphOutline.Sideways: quarter turn, then the vertical offset
Sideways(segs, yOffset) ==
    [i \in 1..Len(segs) |->
        [segs[i] EXCEPT !.Args =
            [j \in 1..3 |-> Point(segs[i].Args[j].Y, yOffset - segs[i].Args[j].X)]]]

\* segmentsToBounds: the box around the points the segments use, the zero
\* rectangle when there is none
segmentsToBounds(segs) ==
    LET pts == {segs[i].Args[1] : i \in 1..Len(segs)}
        MinOf(S) == CHOOSE x \in S : \A y \in S : x <= y
        MaxOf(S) == CHOOSE x \in S : \A y \in S : x >= y
    IN  IF pts = {} THEN [Min |-> Point(0, 0), Max |-> Point(0, 0)]
        ELSE [Min |-> Point(MinOf({p.X : p \in pts}), MinOf({p.Y : p \in pts})),
              Max |-> Point(MaxOf({p.X : p \in pts}), MaxOf({p.Y : p \in pts}))]

----------------------------------------------------------------------------
(* shapeImpl, lines 182-258 *)

\* lines 186-197: the shaper input of the whole text
ShapingInput(text, face, f) ==
    [Text         |-> text,
     RunStart     |-> 0,
     RunEnd       |-> Len(text),
     Direction    |-> face.Direction,
     Face         |-> f,
     FontFeatures |-> face.features,
     Size         |-> float64ToFixed26_6(face.Size),
     Script       |-> face.Script,
     Language     |-> face.Language]

\* the sub-runs left in text order whatever the direction
InputsInTextOrder(text, face, f) == Split(ShapingInput(text, face, f), singleFontmap(f))

\* lines 199-205: the sub-runs in processing order
Inputs(text, face, f) ==
    LET inputs == Split(ShapingInput(text, face, f), singleFontmap(f))
    IN  IF face.Direction = "RightToLeft" THEN Reverse(inputs) ELSE inputs

\* the position of every scalar counted in scalars, not in bytes
indicesInScalars(text) == [i \in 1..(Len(text) + 1) |-> i - 1]

\* lines 215-219: the byte offset of every scalar of the text, then len(text)
RECURSIVE indices(_)
indices(text) ==
    IF text = <<>> THEN <<0>>
    ELSE LET front == indices(SubSeq(text, 1, Len(text) - 1))
         IN  Append(front, Last(front) + ByteLen(Last(text)))

\* an extraction that draws a glyph without outline as a placeholder
OutlineSegmentsPlaceholder(out, gl, f, active) ==
    LET data == GlyphData(gl.GlyphID, active)
    IN  IF data.hasOutline THEN data.Segments
        ELSE <<Segment("MoveTo", Point(0, 0)), Segment("LineTo", Point(1, 1))>>

\* lines 223-236: the segments of the glyph's outline
OutlineSegments(out, gl, f, active) ==
    LET data == GlyphData(gl.GlyphID, active)
    IN  CASE data.kind = "GlyphOutline" ->
                IF IsSideways(out.Direction)
                THEN Sideways(data.Segments, ((0 - gl.YOffset) * Upem(f)) \div out.Size)
                ELSE data.Segments
          [] data.kind = "GlyphSVG" -> data.Segments
          [] data.kind = "GlyphBitmap" -> IF data.hasOutline THEN data.Segments ELSE <<>>
          [] OTHER -> <<>>

\* scaling that applies scale to both axes
scaleSegmentsNoFlip(segs, size) ==
    [i \in 1..Len(segs) |->
        [segs[i] EXCEPT !.Args =
            [j \in 1..3 |-> Point(segs[i].Args[j].X * size, segs[i].Args[j].Y * size)]]]

\* lines 238-246: a coordinate is kept as the numerator of a fraction whose
\* denominator is 64 * Upem; scale is out.Size / (64 * Upem)
scaleSegments(segs, size) ==
    [i \in 1..Len(segs) |->
        [segs[i] EXCEPT !.Args =
            [j \in 1..3 |-> Point(segs[i].Args[j].X * size, 0 - segs[i].Args[j].Y * size)]]]

\* an index expression that accepts every position
indexPanicsNever(text, gl) == FALSE

\* lines 250-251: the two index expressions are bounds-checked at run time;
\* the table has the positions 0..number of scalars
indexPanics(text, gl) ==
    \/ gl.ClusterIndex \notin 0..Len(text)
    \/ gl.ClusterIndex + gl.RuneCount \notin 0..Len(text)

\* indices[i]; a read that escaped the bounds check yields the sentinel
IndexAt(text, i) ==
    IF i \in 0..Len(text) THEN indices(text)[i + 1] ELSE Last(indices(text))

\* a glyph record whose range ends after the cluster's first scalar
MakeGlyphOneScalar(text, out, gl, f, active) ==
    LET scaledSegs == scaleSegments(OutlineSegments(out, gl, f, active), out.Size)
    IN  [shapingGlyph   |-> gl,
         startIndex     |-> IndexAt(text, gl.ClusterIndex),
         endIndex       |-> IndexAt(text, gl.ClusterIndex + 1),
         scaledSegments |-> scaledSegs,
         bounds         |-> segmentsToBounds(scaledSegs)]

\* lines 221-255: the glyph record of one shaped glyph; active is the font's
\* variation configuration when GlyphData is called
MakeGlyph(text, out, gl, f, active) ==
    LET scaledSegs == scaleSegments(OutlineSegments(out, gl, f, active), out.Size)
    IN  [shapingGlyph   |-> gl,
         startIndex     |-> IndexAt(text, gl.ClusterIndex),
         endIndex       |-> IndexAt(text, gl.ClusterIndex + gl.RuneCount),
         scaledSegments |-> scaledSegs,
         bounds         |-> segmentsToBounds(scaledSegs)]

\* lines 207-256 for one sub-run, run without interruption
GlyphsOf(text, out, f, active) ==
    [k \in 1..Len(out.Glyphs) |-> MakeGlyph(text, out, out.Glyphs[k], f, active)]

\* a loop that visits the glyphs of a right-to-left output last to first
glyphOrderLogical(out) ==
    IF out.Direction = "RightToLeft" THEN Reverse(out.Glyphs) ELSE out.Glyphs

\* line 221, for _, gl := range out.Glyphs: the glyphs in the output's order
glyphOrder(out) == out.Glyphs

\* a call that leaves the font's variation configuration as it finds it
setVariationsSkip(fs, f, v) == fs

\* line 184, f.SetVariations: the configuration v becomes the active one of
\* font f
setVariations(fs, f, v) == [fs EXCEPT ![f].variations = v]

\* shapeImpl run without interruption: line 184 sets the font's variations,
\* the shaper and GlyphData observe the configuration that is then active.
\* The loops visit the glyphs output by output; at the first glyph whose
\* index expression panics the call ends with what it had built so far.
\* the glyphs of the outputs in the order the loops of lines 220-221 visit them
visitedGlyphs(outputs) ==
    Flatten([i \in 1..Len(outputs) |->
                [k \in 1..Len(glyphOrder(outputs[i])) |->
                    [o |-> i, gl |-> glyphOrder(outputs[i])[k]]]])

\* the first visited glyph whose index lookup panics, 0 when there is none
firstPanic(text, visited) ==
    LET bad == {k \in 1..Len(visited) : indexPanics(text, visited[k].gl)}
    IN  IF bad = {} THEN 0 ELSE CHOOSE k \in bad : \A m \in bad : k <= m

\* the loops of lines 220-255, left at the first panic
glyphLoop(text, f, active, outputs, visited, first) ==
    [panicked |-> first # 0,
     outputs  |-> IF first = 0 THEN outputs ELSE SubSeq(outputs, 1, visited[first].o),
     glyphs   |-> [k \in 1..(IF first = 0 THEN Len(visited) ELSE first - 1) |->
                      MakeGlyph(text, outputs[visited[k].o], visited[k].gl, f, active)]]

glyphsOf(text, f, active, outputs, visited) ==
    glyphLoop(text, f, active, outputs, visited, firstPanic(text, visited))

\* lines 207-211: the shaper runs once on each input, in order
shapeInputs(inputs, active) == [i \in 1..Len(inputs) |-> Shape(inputs[i], active)]

shapeOutputs(text, f, active, outputs) ==
    glyphsOf(text, f, active, outputs, visitedGlyphs(outputs))

\* active is the configuration of the font that is split and shaped, read
\* that of the font whose GlyphData is called
shapeWith(text, face, f, active, read) ==
    shapeOutputs(text, f, read, shapeInputs(Inputs(text, face, f), active))

\* lines 183-184: the font that is configured, split and shaped is that of
\* the face's source (f := face.Source.f)
fontOf(face) == sources[face.Source].f

\* lines 223 and 261: the outlines and unitsPerEm are read from the font of
\* the receiver (g.f)
shapeImplOn(g, text, face, fs) ==
    shapeWith(text, face, fontOf(face), fs[fontOf(face)].variations, fs[sources[g].f].variations)

shapeImpl(g, text, face) ==
    shapeImplOn(g, text, face, setVariations(fonts, fontOf(face), face.variations))

\* the shaping work of one call: entries of shapeImpl, and calls of
\* SetVariations, Segmenter.Split, Shaper.Shape and GlyphData
NoWork == [shapeImpl |-> 0, SetVariations |-> 0, Split |-> 0, Shape |-> 0, GlyphData |-> 0]

WorkOf(res) ==
    [shapeImpl |-> 1, SetVariations |-> 1, Split |-> 1,
     Shape |-> Len(res.outputs),
     GlyphData |-> Len(res.glyphs) + (IF res.panicked THEN 1 ELSE 0)]

-----------------------------------------------------------------------------
(* The Cocoa window layer, lines 282-2125.  glfw holds _glfw.ns (ns), the    *)
(* window structs (windows), the monitor struct (monitor), what the system   *)
(* keeps for the cursor (NSCursor, mouse), the size events handed to the     *)
(* shared code (sent), and a record of the handler that ran last.            *)

NULL == 0
WinIds == {1, 2}
NoCursor == "NULL"
Cursors == {NoCursor, "custom"}
CursorModes == {"GLFW_CURSOR_NORMAL", "GLFW_CURSOR_HIDDEN", "GLFW_CURSOR_DISABLED"}

\* places of the mouse cursor: 0 is outside every window, 2w - 1 the centre
\* of the content area of window w and 2w another point of it
Places == 0..(2 * Cardinality(WinIds))
CentreOf(w) == 2 * w - 1
ContentArea(w) == {2 * w - 1, 2 * w}

\* sizes are pairs in half units: a content size in half points, a
\* framebuffer size in half pixels; an int field keeps the whole units
Frames == {<<4, 4>>, <<5, 4>>, <<6, 4>>}
Scales == {1, 2}
ToInt(v) == v \div 2
IntSize(size) == <<ToInt(size[1]), ToInt(size[2])>>

\* [window->ns.view frame] and its convertRectToBacking
contentRect(s, w) == s.windows[w].frame
fbRect(s, w) == <<s.windows[w].frame[1] * s.windows[w].scale,
                  s.windows[w].frame[2] * s.windows[w].scale>>

\* createNativeWindow, lines 1031-1141: the window struct of a new window;
\* lines 1137-1138 fill the cached sizes through int pointers
NewWindow(frame) ==
    [live         |-> TRUE,
     cursorMode   |-> "GLFW_CURSOR_NORMAL",
     cursor       |-> NoCursor,
     monitor      |-> NULL,
     autoIconify  |-> TRUE,
     key          |-> FALSE,
     miniaturized |-> FALSE,
     frame        |-> frame,
     scale        |-> 1,
     ns           |-> [delegate  |-> "delegate", view |-> "view", object |-> "object",
                       maximized |-> FALSE,
                       width     |-> ToInt(frame[1]), height   |-> ToInt(frame[2]),
                       fbWidth   |-> ToInt(frame[1]), fbHeight |-> ToInt(frame[2]),
                       xscale    |-> 1]]

\* the handler that ran last, with cursorHidden and disabledCursorWindow as
\* they were when it started
NoHandler == [op |-> "", window |-> NULL, hidden |-> FALSE, disabled |-> NULL]

\* the state after _glfwPlatformInit and the creation of two windows
glfwInit ==
    [ns       |-> [cursorHidden |-> FALSE, disabledCursorWindow |-> NULL, restoreCursorPos |-> 0],
     windows  |-> [w \in WinIds |-> NewWindow(<<4, 4>>)],
     monitor  |-> [window |-> NULL, videoMode |-> "original"],
     NSCursor |-> [hides |-> 0, current |-> "arrowCursor"],
     mouse    |-> [pos |-> 0, associated |-> TRUE],
     sent     |-> [w \in WinIds |-> [FramebufferSize |-> <<>>, WindowSize |-> <<>>]],
     imaged   |-> NULL,
     entered  |-> 0,
     last     |-> NoHandler]

\* cursorInContentArea, lines 297-301
cursorInContentArea(s, w) == s.mouse.pos \in ContentArea(w)

\* hideCursor without its test
hideCursorAlways(s, w) ==
    [s EXCEPT !.NSCursor.hides = @ + 1, !.ns.cursorHidden = TRUE]

\* hideCursor, lines 305-312; hides counts [NSCursor hide] less [NSCursor unhide]
hideCursor(s, w) ==
    IF ~s.ns.cursorHidden
    THEN [s EXCEPT !.NSCursor.hides = @ + 1, !.ns.cursorHidden = TRUE]
    ELSE s

\* showCursor, lines 316-323
showCursor(s, w) ==
    IF s.ns.cursorHidden
    THEN [s EXCEPT !.NSCursor.hides = @ - 1, !.ns.cursorHidden = FALSE]
    ELSE s

\* lines 333-336: [cursor set]
setCursorOf(s, w) ==
    [s EXCEPT !.NSCursor.current = IF s.windows[w].cursor # NoCursor THEN s.windows[w].cursor
                                   ELSE "arrowCursor"]

\* updateCursorImage that hides the cursor in disabled mode only
updateCursorImageDisabledOnly(s, w) ==
    IF s.windows[w].cursorMode # "GLFW_CURSOR_DISABLED"
    THEN [setCursorOf(showCursor(s, w), w) EXCEPT !.imaged = w]
    ELSE [hideCursor(s, w) EXCEPT !.imaged = w]

\* updateCursorImage, lines 327-340; imaged notes the window it ran for
updateCursorImage(s, w) ==
    IF s.windows[w].cursorMode = "GLFW_CURSOR_NORMAL"
    THEN [setCursorOf(showCursor(s, w), w) EXCEPT !.imaged = w]
    ELSE [hideCursor(s, w) EXCEPT !.imaged = w]

\* _glfwPlatformGetCursorPos, lines 1826-1840
glfwPlatformGetCursorPos(s, w) == s.mouse.pos

\* lines 1849-1873 of _glfwPlatformSetCursorPos: the cursor is warped, and the
\* mouse is associated with it again unless the cursor is disabled
warpCursor(s, w, x) ==
    [s EXCEPT !.mouse.pos = x,
              !.mouse.associated = IF s.windows[w].cursorMode # "GLFW_CURSOR_DISABLED"
                                   THEN TRUE ELSE @]

\* _glfwPlatformSetCursorPos, lines 1842-1876
glfwPlatformSetCursorPos(s, w, x) == warpCursor(updateCursorImage(s, w), w, x)

\* _glfwCenterCursorInContentArea of the shared code: the cursor is set to the
\* centre of the content area
glfwCenterCursorInContentArea(s, w) == glfwPlatformSetCursorPos(s, w, CentreOf(w))

\* lines 348-351; entered keeps the place the cursor had when the window
\* became the disabledCursorWindow
recordDisabled(s, w) ==
    [s EXCEPT !.ns.disabledCursorWindow = w,
              !.ns.restoreCursorPos = glfwPlatformGetCursorPos(s, w),
              !.entered = IF s.ns.disabledCursorWindow = w THEN @
                          ELSE glfwPlatformGetCursorPos(s, w)]

\* lines 353: CGAssociateMouseAndMouseCursorPosition(false)
dissociate(s) == [s EXCEPT !.mouse.associated = FALSE]

\* lines 357-360
restoreCursor(s, w) ==
    glfwPlatformSetCursorPos([s EXCEPT !.ns.disabledCursorWindow = NULL], w,
                             s.ns.restoreCursorPos)

\* lines 346-363
applyCursorMode(s, w) ==
    IF s.windows[w].cursorMode = "GLFW_CURSOR_DISABLED"
    THEN dissociate(glfwCenterCursorInContentArea(recordDisabled(s, w), w))
    ELSE IF s.ns.disabledCursorWindow = w THEN restoreCursor(s, w)
    ELSE s

\* lines 365-366
updateImageIfInside(s, w) == IF cursorInContentArea(s, w) THEN updateCursorImage(s, w) ELSE s

\* updateCursorMode, lines 344-367
updateCursorMode(s, w) == updateImageIfInside(applyCursorMode(s, w), w)

\* _glfwInputMonitorWindow of the shared code: monitor->window = window
glfwInputMonitorWindow(s, w) == [s EXCEPT !.monitor.window = w]

\* acquireMonitor, lines 371-383
acquireMonitor(s, w) ==
    glfwInputMonitorWindow([s EXCEPT !.monitor.videoMode = "window"], w)

\* releaseMonitor without its test
releaseMonitorAlways(s, w) ==
    [glfwInputMonitorWindow(s, NULL) EXCEPT !.monitor.videoMode = "original"]

\* releaseMonitor, lines 387-394
releaseMonitor(s, w) ==
    IF s.monitor.window # w THEN s
    ELSE [glfwInputMonitorWindow(s, NULL) EXCEPT !.monitor.videoMode = "original"]

----------------------------------------------------------------------------
(* The Face Source *)

SrcIds == {1, 2}
Threads == 1..NThreads

\* line 119, &font.Face{Font: f}: a face with no variation set
NewFace == [variations |-> <<>>]

\* metadataFromFace: the family, and the weight the face has with the
\* variation configuration that is active when the metadata is read
metadataFromFace(face) == [Family |-> "Family", Weight |-> AxisSum(face.variations)]

\* newGoTextFaceSource, lines 92-100: the struct at address g, its shaping
\* cache is the cache instance c; the image cache map is nil
newGoTextFaceSource(g, f, c) ==
    [f |-> f, metadata |-> metadataFromFace(NewFace), addr |-> g,
     outputCache |-> c, glyphImageCache |-> 0]

\* metadata read from the font at the time of the call
metadataOfFont(g) == metadataFromFace(fonts[sources[g].f])

\* line 155: the field set at construction
metadataOf(g) == sources[g].metadata

\* copyCheck, lines 147-151: TRUE when the check passes, FALSE when it panics
copyCheckNever(g) == TRUE

copyCheck(g) == sources[g].addr = g

\* line 177: the closure given to the shaping cache returns (value, true)
shapeCacheableNot == FALSE

shapeCacheable == TRUE

\* line 265 without its test: a collection is made in every call
noCollectionAlways(src) == TRUE

\* line 265: g.glyphImageCache == nil
noCollection(src) == src.glyphImageCache = 0

\* line 268: the size has no image cache yet
missingSizeAlways(m, size) == TRUE

missingSize(m, size) == size \notin DOMAIN m

\* line 269: the capacity of a new image cache
imageCacheCapacity(face) == baseCapacity * glyphVariationCount(face)

\* the frame of a goroutine that is not in a call
Idle == [pc |-> "idle"]

\* a completed call of the sequential program; req is what the caller asked
\* the create callback of an image call to render: glyph id, offsets and
\* variations (empty for a shape call)
Call(op, g, text, req, face, key, outcome, value, hit, cacheable, map, cache, work) ==
    [op |-> op, g |-> g, text |-> text, face |-> face, key |-> key,
     outcome |-> outcome, value |-> value, hit |-> hit, cacheable |-> cacheable,
     map |-> map, cache |-> cache, work |-> work, req |-> req]

NoValue == [id |-> 0]

Init ==
    /\ sources = (1 :> newGoTextFaceSource(1, 1, 1))
    /\ fonts = <<NewFace>>
    /\ caches = <<newCache(outputCacheCapacity)>>
    /\ maps = <<>>
    /\ nalloc = 0
    /\ hist = <<>>
    /\ th = [t \in Threads |-> Idle]
    /\ log = <<>>
    /\ glfw = glfwInit

\* a GoTextFaceSource struct copied by value: every field, addr included, is
\* copied; the pointers (font, shaping cache, map) alias the original's
CopyByValue ==
    /\ 2 \notin DOMAIN sources
    /\ sources' = sources @@ (2 :> sources[1])
    /\ UNCHANGED <<fonts, caches, maps, nalloc, hist, th, log, glfw>>

\* the create callback of lines 171-177, and with it line 184, runs only when
\* getOrCreate misses: the fonts after a shape call that passed the copy check
fontsAfterShapeAlways(hit, f, v) == setVariations(fonts, f, v)

fontsAfterShape(hit, f, v) == IF hit THEN fonts ELSE setVariations(fonts, f, v)

\* shape, lines 168-180, run without interruption
shape(g, text, face) ==
    /\ Len(hist) < MaxOps
    /\ g \in DOMAIN sources
    /\ IF ~copyCheck(g)
       THEN /\ hist' = Append(hist, Call("shape", g, text, <<>>, face, outputCacheKey(face, text),
                                         "panic", NoValue, FALSE, FALSE, 0, 0, NoWork))
            /\ UNCHANGED <<sources, fonts, caches, maps, nalloc, th, log, glfw>>
       ELSE LET key  == outputCacheKey(face, text)
                cid  == sources[g].outputCache
                f    == fontOf(face)
                res  == shapeImpl(g, text, face)
                made == [id |-> nalloc + 1, outputs |-> res.outputs, glyphs |-> res.glyphs]
                r    == getOrCreate(caches[cid], key, made, shapeCacheable)
            IN  IF ~CacheHas(caches[cid], key) /\ res.panicked
                THEN \* the panic of line 250 or 251 leaves shapeImpl, the create
                     \* callback and getOrCreate: nothing is returned or stored
                     /\ fonts' = setVariations(fonts, f, face.variations)
                     /\ hist' = Append(hist, Call("shape", g, text, <<>>, face, key, "panic",
                                                  NoValue, FALSE, FALSE, 0, cid, WorkOf(res)))
                     /\ UNCHANGED <<sources, caches, maps, nalloc, th, log, glfw>>
                ELSE /\ caches' = [caches EXCEPT ![cid] = r.cache]
                     /\ fonts' = fontsAfterShape(r.hit, f, face.variations)
                     /\ nalloc' = IF r.hit THEN nalloc ELSE nalloc + 1
                     /\ hist' = Append(hist, Call("shape", g, text, <<>>, face, key, "ok", r.value,
                                                  r.hit, shapeCacheable, 0, cid,
                                                  IF r.hit THEN NoWork ELSE WorkOf(res)))
                     /\ UNCHANGED <<sources, maps, th, log, glfw>>

\* getOrCreateGlyphImage, lines 264-272, run without interruption; req is
\* what the create callback renders and cacheable what it signals, if it is
\* invoked
glyphImageCall(g, face, key, req, cacheable) ==
    /\ Len(hist) < MaxOps
    /\ g \in DOMAIN sources
    /\ LET isNil   == noCollection(sources[g])
           mid     == IF isNil THEN Len(maps) + 1 ELSE sources[g].glyphImageCache
           maps1   == IF isNil THEN Append(maps, <<>>) ELSE maps
           needNew == missingSize(maps1[mid], face.Size)
           cid     == IF needNew THEN Len(caches) + 1 ELSE maps1[mid][face.Size]
           caches1 == IF needNew THEN Append(caches, newCache(imageCacheCapacity(face)))
                      ELSE caches
           maps2   == IF needNew
                      THEN [maps1 EXCEPT ![mid] =
                               [z \in (DOMAIN @) \cup {face.Size} |->
                                   IF z = face.Size THEN cid ELSE @[z]]]
                      ELSE maps1
           r       == getOrCreate(caches1[cid], key, [id |-> nalloc + 1, req |-> req], cacheable)
       IN  /\ sources' = [sources EXCEPT ![g].glyphImageCache = mid]
           /\ maps' = maps2
           /\ caches' = [caches1 EXCEPT ![cid] = r.cache]
           /\ nalloc' = IF r.hit THEN nalloc ELSE nalloc + 1
           /\ hist' = Append(hist, Call("image", g, <<>>, req, face, key, "ok", r.value, r.hit,
                                        cacheable, mid, cid, NoWork))
           /\ UNCHANGED <<fonts, th, log, glfw>>

\* a request whose create callback renders what the key names
getOrCreateGlyphImage(g, face, key, cacheable) ==
    glyphImageCall(g, face, key, <<key.gid, key.xoffset, key.yoffset, key.variations>>, cacheable)

\* the face and key fields of a call that takes neither
NoFace ==
    [Size |-> 0, Direction |-> "", Language |-> "", Script |-> "",
     variations |-> <<>>, features |-> <<>>]

\* Metadata, lines 153-156: no copy check, no lock, one field read
Metadata(g) ==
    /\ Len(hist) < MaxOps
    /\ g \in DOMAIN sources
    /\ hist' = Append(hist, Call("Metadata", g, <<>>, <<>>, NoFace, <<>>, "ok", metadataOf(g),
                                 FALSE, FALSE, 0, 0, NoWork))
    /\ UNCHANGED <<sources, fonts, caches, maps, nalloc, th, log, glfw>>

\* a text of two sub-runs with every face, the empty text with two faces
ShapeInputs ==
    ({<<2, 3>>} \X Faces) \cup ({<<>>} \X {BaseFace, [BaseFace EXCEPT !.Size = 512]})

\* the calls made on the copy are a few of those made on the original
CopyImageKeys == {goTextGlyphImageCacheKey(1, 0, 0, <<<<1, 1>>>>)}

Next ==
    \/ CopyByValue
    \/ \E in \in ShapeInputs : shape(1, in[1], in[2])
    \/ shape(2, <<2, 3>>, BaseFace)
    \/ \E face \in ImageFaces, key \in ImageKeys, cacheable \in BOOLEAN :
          getOrCreateGlyphImage(1, face, key, cacheable)
    \/ \E face \in {BaseFace, [BaseFace EXCEPT !.Size = 512]}, key \in CopyImageKeys :
          getOrCreateGlyphImage(2, face, key, TRUE)

Spec == Init /\ [][Next]_vars

-----------------------------------------------------------------------------
(* Image requests on one Face Source: the caller builds the key from the     *)
(* glyph id, the sub-pixel offsets and the variation settings, and its       *)
(* create callback renders exactly those.                                    *)

\* a base request and the four requests that differ from it in one field
ImageRequests ==
    {<<1, 0, 0, <<<<1, 1>>>>>>,
     <<2, 0, 0, <<<<1, 1>>>>>>,
     <<1, 16, 0, <<<<1, 1>>>>>>,
     <<1, 0, 16, <<<<1, 1>>>>>>,
     <<1, 0, 0, <<<<1, 2>>>>>>}

RequestGlyphImage(face, req, cacheable) ==
    glyphImageCall(1, face, goTextGlyphImageCacheKey(req[1], req[2], req[3], req[4]),
                   req, cacheable)

NextImage ==
    \E face \in {BaseFace, [BaseFace EXCEPT !.Size = 512]}, req \in ImageRequests,
       cacheable \in BOOLEAN :
          RequestGlyphImage(face, req, cacheable)

ImageSpec == Init /\ [][NextImage]_vars

-----------------------------------------------------------------------------
(* The shaping pipeline on its own: one shape call on a fresh Face Source,   *)
(* for every short text and the directions and sizes of PipeFaces.           *)

Scalars == 1..3

PipeTexts == UNION {[1..n -> Scalars] : n \in 0..MaxLen}

PipeFaces ==
    {BaseFace,
     [BaseFace EXCEPT !.Direction = "RightToLeft"],
     [BaseFace EXCEPT !.Direction = "TopToBottom"],
     [BaseFace EXCEPT !.Size = 512]}

ShapeOnce(text, face) ==
    /\ hist = <<>>
    /\ shape(1, text, face)

NextPipe == \E text \in PipeTexts, face \in PipeFaces : ShapeOnce(text, face)

PipeSpec == Init /\ [][NextPipe]_vars

\* the same with the scalars that make clusters of two scalars, clusters of
\* two glyphs and glyphs of every outline form, in every direction
ClusterScalars == {1, 3, 4, 5, 7}

ClusterTexts == UNION {[1..n -> ClusterScalars] : n \in 0..MaxLen}

ClusterFaces ==
    {BaseFace,
     [BaseFace EXCEPT !.Direction = "RightToLeft"],
     [BaseFace EXCEPT !.Direction = "TopToBottom"],
     [BaseFace EXCEPT !.Direction = "TopToBottomSideways"]}

NextCluster == \E text \in ClusterTexts, face \in ClusterFaces : ShapeOnce(text, face)

ClusterSpec == Init /\ [][NextCluster]_vars

-----------------------------------------------------------------------------
(* Shape calls on one Face Source with styles that are close to one another: *)
(* sizes with the same 26.6 shaping size, and variation and feature entries  *)
(* supplied in different orders.                                             *)

KeyTexts == {<<2, 3>>, <<1>>}

\* 257 is 2.0078125: float64ToFixed26_6 gives 128 for it, as for 2.0
KeyFaces ==
    {BaseFace,
     [BaseFace EXCEPT !.Size = BaseFace.Size + 1],
     [BaseFace EXCEPT !.variations = <<<<1, 1>>, <<2, 1>>>>],
     [BaseFace EXCEPT !.variations = <<<<2, 1>>, <<1, 1>>>>],
     [BaseFace EXCEPT !.features = <<<<1, 1>>, <<2, 1>>>>],
     [BaseFace EXCEPT !.features = <<<<2, 1>>, <<1, 1>>>>]}

NextKey == \E text \in KeyTexts, face \in KeyFaces : shape(1, text, face)

KeySpec == Init /\ [][NextKey]_vars

-----------------------------------------------------------------------------
(* Shape calls with a shaper that reports a cluster index past the text for  *)
(* scalar 6, next to texts it shapes correctly.                              *)

FaultTexts == {<<1>>, <<6>>, <<1, 6>>, <<3, 6>>, <<4, 5>>}

FaultFaces == {BaseFace, [BaseFace EXCEPT !.Direction = "RightToLeft"]}

NextFault == \E text \in FaultTexts, face \in FaultFaces : shape(1, text, face)

FaultSpec == Init /\ [][NextFault]_vars

-----------------------------------------------------------------------------
(* Metadata read between shape calls with two variation configurations and  *)
(* image requests, from the source and from a copy of it.                    *)

MetaFaces == {BaseFace, [BaseFace EXCEPT !.variations = <<<<1, 2>>>>]}

NextMeta ==
    \/ CopyByValue
    \/ \E face \in MetaFaces : shape(1, <<2, 3>>, face)
    \/ \E key \in ImageKeys : getOrCreateGlyphImage(1, BaseFace, key, TRUE)
    \/ \E g \in SrcIds : Metadata(g)

MetaSpec == Init /\ [][NextMeta]_vars

-----------------------------------------------------------------------------
(* Two Face Sources of one collection, each with its own font and shaping    *)
(* cache, and styles that name either of them as their source.               *)

SourceTexts == {<<1>>, <<2, 3>>}

SourceFaces ==
    {[BaseFace EXCEPT !.Source = s, !.variations = v] :
        s \in SrcIds, v \in {<<<<1, 1>>>>, <<<<1, 2>>>>}}

\* the state after NewGoTextFaceSourcesFromCollection made two sources
InitCollection ==
    /\ sources = (1 :> newGoTextFaceSource(1, 1, 1)) @@ (2 :> newGoTextFaceSource(2, 2, 2))
    /\ fonts = <<NewFace, NewFace>>
    /\ caches = <<newCache(outputCacheCapacity), newCache(outputCacheCapacity)>>
    /\ maps = <<>>
    /\ nalloc = 0
    /\ hist = <<>>
    /\ th = [t \in Threads |-> Idle]
    /\ log = <<>>
    /\ glfw = glfwInit

NextSource == \E g \in SrcIds, text \in SourceTexts, face \in SourceFaces : shape(g, text, face)

SourceSpec == InitCollection /\ [][NextSource]_vars

-----------------------------------------------------------------------------
(* Loading: toFontResource, NewGoTextFaceSource and                          *)
(* NewGoTextFaceSourcesFromCollection, lines 74-145.  A font file is the     *)
(* sequence of its fonts, each well-formed ("ok") or not ("bad"); a file     *)
(* without any font is malformed.  An io.Reader has the file as its data,    *)
(* is a font.Resource (Read, Seek, ReadAt) or a plain stream, and may fail   *)
(* when it is read.                                                          *)

FontFiles == UNION {[1..n -> {"ok", "bad"}] : n \in 0..MaxFonts}

Readers ==
    {[resource |-> res, fails |-> FALSE, data |-> d] : res \in BOOLEAN, d \in FontFiles}
        \cup {[resource |-> res, fails |-> TRUE, data |-> <<"ok">>] : res \in BOOLEAN}

NoResource == [from |-> "none", fails |-> FALSE, data |-> <<>>]

\* io.ReadAll: every byte up to the end, or the reader's error
ioReadAll(r) ==
    IF r.fails THEN [bs |-> <<>>, err |-> "read"] ELSE [bs |-> r.data, err |-> ""]

\* a conversion that buffers every source, a font.Resource too
toFontResourceBuffered(source) ==
    LET a == ioReadAll(source)
    IN  IF a.err # "" THEN [src |-> NoResource, err |-> a.err, read |-> TRUE]
        ELSE [src |-> [from |-> "buffer", fails |-> FALSE, data |-> a.bs],
              err |-> "", read |-> TRUE]

\* toFontResource, lines 74-90; read tells whether the source was read from
toFontResource(source) ==
    IF source.resource
    THEN [src |-> [from |-> "source", fails |-> source.fails, data |-> source.data],
          err |-> "", read |-> FALSE]
    ELSE LET a == ioReadAll(source)
         IN  IF a.err # "" THEN [src |-> NoResource, err |-> a.err, read |-> TRUE]
             ELSE [src |-> [from |-> "buffer", fails |-> FALSE, data |-> a.bs],
                   err |-> "", read |-> TRUE]

\* opentype.NewLoaders: one loader per font of the file
NewLoaders(src) ==
    IF src.fails THEN [ls |-> <<>>, err |-> "read"]
    ELSE IF src.data = <<>> THEN [ls |-> <<>>, err |-> "parse"]
    ELSE [ls |-> [k \in 1..Len(src.data) |-> [font |-> src.data[k], index |-> k]], err |-> ""]

\* opentype.NewLoader: the loader of the file's first font
NewLoader(src) ==
    LET r == NewLoaders(src)
    IN  IF r.err # "" THEN r ELSE [ls |-> <<r.ls[1]>>, err |-> ""]

\* font.NewFont
NewFont(l) == IF l.font = "bad" THEN [err |-> "parse"] ELSE [err |-> ""]

\* a loop that returns the sources built before the first font that fails
sourcesFromLoadersPartial(ls) ==
    LET bad == {k \in 1..Len(ls) : NewFont(ls[k]).err # ""}
    IN  IF bad = {} THEN [made |-> ls, err |-> ""]
        ELSE [made |-> SubSeq(ls, 1, (CHOOSE k \in bad : \A m \in bad : k <= m) - 1),
              err |-> "parse"]

\* lines 134-144: the loaders whose sources are returned; at the first font
\* that fails the slice built so far is dropped
sourcesFromLoaders(ls) ==
    IF \E k \in 1..Len(ls) : NewFont(ls[k]).err # ""
    THEN [made |-> <<>>, err |-> "parse"]
    ELSE [made |-> ls, err |-> ""]

\* a load attempt as the caller sees it: the sources returned, by address,
\* and the error
Loaded(op, source, conv, ids, err) ==
    [op |-> op, source |-> source, read |-> conv.read, from |-> conv.src.from,
     parsed |-> conv.src.data, ids |-> ids, err |-> err]

\* the state after newGoTextFaceSource (lines 92-100) ran for each of the
\* loaders: a new face, a new shaping cache and a new struct per loader
Construct(op, source, conv, made, err) ==
    LET n  == Len(made)
        g0 == Cardinality(DOMAIN sources)
    IN  /\ sources' = [g \in 1..(g0 + n) |->
                           IF g <= g0 THEN sources[g]
                           ELSE newGoTextFaceSource(g, Len(fonts) + g - g0, Len(caches) + g - g0)]
        /\ fonts' = fonts \o [k \in 1..n |-> [variations |-> NewFace.variations,
                                               Font |-> made[k]]]
        /\ caches' = caches \o [k \in 1..n |-> newCache(outputCacheCapacity)]
        /\ hist' = Append(hist, Loaded(op, source, conv, [k \in 1..n |-> g0 + k], err))
        /\ UNCHANGED <<maps, nalloc, th, log, glfw>>

\* NewGoTextFaceSource, lines 102-121
NewGoTextFaceSource(source) ==
    /\ Len(hist) < MaxLoads
    /\ LET conv == toFontResource(source)
           l    == NewLoader(conv.src)
       IN  IF conv.err # "" THEN Construct("NewGoTextFaceSource", source, conv, <<>>, conv.err)
           ELSE IF l.err # "" THEN Construct("NewGoTextFaceSource", source, conv, <<>>, l.err)
           ELSE IF NewFont(l.ls[1]).err # ""
                THEN Construct("NewGoTextFaceSource", source, conv, <<>>, NewFont(l.ls[1]).err)
           ELSE Construct("NewGoTextFaceSource", source, conv, l.ls, "")

\* NewGoTextFaceSourcesFromCollection, lines 123-145
NewGoTextFaceSourcesFromCollection(source) ==
    /\ Len(hist) < MaxLoads
    /\ LET conv == toFontResource(source)
           l    == NewLoaders(conv.src)
           r    == sourcesFromLoaders(l.ls)
       IN  IF conv.err # "" THEN Construct("FromCollection", source, conv, <<>>, conv.err)
           ELSE IF l.err # "" THEN Construct("FromCollection", source, conv, <<>>, l.err)
           ELSE Construct("FromCollection", source, conv, r.made, r.err)

NextLoad ==
    \/ \E source \in Readers : NewGoTextFaceSource(source)
    \/ \E source \in Readers : NewGoTextFaceSourcesFromCollection(source)

LoadSpec == Init /\ [][NextLoad]_vars

-----------------------------------------------------------------------------
(* The handlers of the Cocoa window layer.  A handler runs without           *)
(* interruption on the main thread; only windows that are not destroyed      *)
(* receive calls and notifications.                                          *)

\* a handler starts: no updateCursorImage has run in it yet
Entering == [glfw EXCEPT !.imaged = NULL]

\* a handler ends in the state s
Handled(op, w, s) ==
    /\ glfw' = [s EXCEPT !.last = [op |-> op, window |-> w, hidden |-> glfw.ns.cursorHidden,
                                   disabled |-> glfw.ns.disabledCursorWindow]]
    /\ UNCHANGED engine

\* _glfwPlatformWindowFocused, lines 1610-1615: [window->ns.object isKeyWindow]
glfwPlatformWindowFocused(s, w) == s.windows[w].key

\* _glfwPlatformSetCursorMode, lines 1878-1884
glfwPlatformSetCursorMode(s, w) ==
    IF glfwPlatformWindowFocused(s, w) THEN updateCursorMode(s, w) ELSE s

\* glfwSetInputMode(GLFW_CURSOR) of the shared code: a new mode is stored in
\* the window, then the platform is told
glfwSetInputMode(w, mode) ==
    /\ glfw.windows[w].live
    /\ glfw.windows[w].cursorMode # mode
    /\ Handled("glfwSetInputMode", w,
               glfwPlatformSetCursorMode([Entering EXCEPT !.windows[w].cursorMode = mode], w))

\* _glfwPlatformSetCursor, lines 2069-2075, after glfwSetCursor of the shared
\* code stored the cursor in the window
glfwSetCursor(w, c) ==
    /\ glfw.windows[w].live
    /\ Handled("glfwSetCursor", w,
               updateImageIfInside([Entering EXCEPT !.windows[w].cursor = c], w))

\* cursorUpdate, lines 651-654
cursorUpdate(w) ==
    /\ glfw.windows[w].live
    /\ Handled("cursorUpdate", w, updateCursorImage(Entering, w))

\* mouseExited, lines 748-754
mouseExited(w) ==
    /\ glfw.windows[w].live
    /\ Handled("mouseExited", w,
               IF glfw.windows[w].cursorMode = "GLFW_CURSOR_HIDDEN" THEN showCursor(Entering, w)
               ELSE Entering)

\* mouseEntered, lines 756-762
mouseEntered(w) ==
    /\ glfw.windows[w].live
    /\ Handled("mouseEntered", w,
               IF glfw.windows[w].cursorMode = "GLFW_CURSOR_HIDDEN" THEN hideCursor(Entering, w)
               ELSE Entering)

\* the user moves the mouse: the cursor follows while it is associated
mouseMoved(p) ==
    /\ glfw.mouse.associated
    /\ p # glfw.mouse.pos
    /\ Handled("mouseMoved", NULL, [Entering EXCEPT !.mouse.pos = p])

\* lines 552-553, as in windowDidResize and windowDidMove
centerIfDisabled(s, w) ==
    IF s.ns.disabledCursorWindow = w THEN glfwCenterCursorInContentArea(s, w) ELSE s

\* windowDidBecomeKey, lines 550-557: the window became the key window
windowDidBecomeKey(w) ==
    /\ glfw.windows[w].live
    /\ \A v \in WinIds : ~glfw.windows[v].key
    /\ Handled("windowDidBecomeKey", w,
               updateCursorMode(centerIfDisabled([Entering EXCEPT !.windows[w].key = TRUE], w), w))

\* windowDidMiniaturize, lines 534-540
didMiniaturize(s, w) == IF s.windows[w].monitor # NULL THEN releaseMonitor(s, w) ELSE s

\* _glfwPlatformIconifyWindow, lines 1424-1429: the window is miniaturized
\* and its delegate is told
glfwPlatformIconifyWindow(s, w) ==
    IF s.windows[w].miniaturized THEN s
    ELSE didMiniaturize([s EXCEPT !.windows[w].miniaturized = TRUE], w)

\* windowDidResignKey, lines 559-565: the window stopped being the key window
windowDidResignKey(w) ==
    /\ glfw.windows[w].live
    /\ glfw.windows[w].key
    /\ Handled("windowDidResignKey", w,
               IF glfw.windows[w].monitor # NULL /\ glfw.windows[w].autoIconify
               THEN glfwPlatformIconifyWindow([Entering EXCEPT !.windows[w].key = FALSE], w)
               ELSE [Entering EXCEPT !.windows[w].key = FALSE])

\* the test of lines 1234-1235 left out
clearDisabledCursorWindowNever(s, w) == s

\* lines 1234-1235
clearDisabledCursorWindow(s, w) ==
    IF s.ns.disabledCursorWindow = w THEN [s EXCEPT !.ns.disabledCursorWindow = NULL] ELSE s

\* lines 1237-1240: the window is ordered out and gives up its monitor
orderOut(s, w) ==
    didMiniaturize([s EXCEPT !.windows[w].key = FALSE], w)

\* lines 1245-1253
releaseObjects(s, w) ==
    [s EXCEPT !.windows[w].ns.delegate = "nil", !.windows[w].ns.view = "nil",
              !.windows[w].ns.object = "nil", !.windows[w].live = FALSE]

\* _glfwPlatformDestroyWindow, lines 1230-1259
glfwPlatformDestroyWindow(w) ==
    /\ glfw.windows[w].live
    /\ Handled("glfwPlatformDestroyWindow", w,
               releaseObjects(orderOut(clearDisabledCursorWindow(Entering, w), w), w))

\* the comparison of a CGFloat with an int field: v is in half units
Differs(v, n) == v # 2 * n

\* the last two events of one kind handed to the shared code for a window
Push(q, e) == IF Len(q) = 2 THEN <<q[2], e>> ELSE Append(q, e)

\* lines 494-499: ns.maximized follows [object isZoomed]
noteMaximized(s, w, zoomed) == [s EXCEPT !.windows[w].ns.maximized = zoomed]

\* lines 768-779: the cached content scale follows the backing scale
noteContentScale(s, w) == [s EXCEPT !.windows[w].ns.xscale = s.windows[w].scale]

\* lines 504-510 and 781-787: the framebuffer size is cached in ints and
\* _glfwInputFramebufferSize is called with int arguments
framebufferSizeChanged(s, w) ==
    IF \/ Differs(fbRect(s, w)[1], s.windows[w].ns.fbWidth)
       \/ Differs(fbRect(s, w)[2], s.windows[w].ns.fbHeight)
    THEN [s EXCEPT !.windows[w].ns.fbWidth  = ToInt(fbRect(s, w)[1]),
                   !.windows[w].ns.fbHeight = ToInt(fbRect(s, w)[2]),
                   !.sent[w].FramebufferSize = Push(@, IntSize(fbRect(s, w)))]
    ELSE s

\* lines 512-518
windowSizeChanged(s, w) ==
    IF \/ Differs(contentRect(s, w)[1], s.windows[w].ns.width)
       \/ Differs(contentRect(s, w)[2], s.windows[w].ns.height)
    THEN [s EXCEPT !.windows[w].ns.width  = ToInt(contentRect(s, w)[1]),
                   !.windows[w].ns.height = ToInt(contentRect(s, w)[2]),
                   !.sent[w].WindowSize = Push(@, IntSize(contentRect(s, w)))]
    ELSE s

\* windowDidResize, lines 486-519: the notification comes with the content
\* view's frame as it is now, changed or not
windowDidResize(w, frame, zoomed) ==
    /\ glfw.windows[w].live
    /\ Handled("windowDidResize", w,
               windowSizeChanged(
                   framebufferSizeChanged(
                       noteMaximized(
                           centerIfDisabled([Entering EXCEPT !.windows[w].frame = frame], w),
                           w, zoomed),
                       w),
                   w))

\* viewDidChangeBackingProperties, lines 764-788: the window's backing store
\* changed, its scale or another of its properties
viewDidChangeBackingProperties(w, scale) ==
    /\ glfw.windows[w].live
    /\ Handled("viewDidChangeBackingProperties", w,
               framebufferSizeChanged(
                   noteContentScale([Entering EXCEPT !.windows[w].scale = scale], w), w))

\* the monitors a window can be given: none (windowed mode) or the one monitor
Monitors == {NULL, 1}

\* windowDidMiniaturize, lines 534-540
windowDidMiniaturize(w) ==
    /\ glfw.windows[w].live
    /\ ~glfw.windows[w].miniaturized
    /\ Handled("windowDidMiniaturize", w,
               didMiniaturize([Entering EXCEPT !.windows[w].miniaturized = TRUE], w))

\* windowDidDeminiaturize, lines 542-548
windowDidDeminiaturize(w) ==
    /\ glfw.windows[w].live
    /\ glfw.windows[w].miniaturized
    /\ Handled("windowDidDeminiaturize", w,
               IF glfw.windows[w].monitor # NULL
               THEN acquireMonitor([Entering EXCEPT !.windows[w].miniaturized = FALSE], w)
               ELSE [Entering EXCEPT !.windows[w].miniaturized = FALSE])

\* _glfwInputWindowMonitor: window->monitor = monitor
glfwInputWindowMonitor(s, w, monitor) == [s EXCEPT !.windows[w].monitor = monitor]

\* lines 1511-1515 and 1545-1551 of _glfwPlatformSetWindowMonitor
changeMonitor(s, w, monitor) ==
    IF monitor # NULL
    THEN acquireMonitor(glfwInputWindowMonitor(s, w, monitor), w)
    ELSE glfwInputWindowMonitor(s, w, monitor)

\* _glfwPlatformSetWindowMonitor, lines 1482-1580, called with the size the
\* window has
glfwPlatformSetWindowMonitor(w, monitor) ==
    /\ glfw.windows[w].live
    /\ Handled("glfwPlatformSetWindowMonitor", w,
               IF glfw.windows[w].monitor = monitor
               THEN IF monitor # NULL /\ glfw.monitor.window = w
                    THEN acquireMonitor(Entering, w)
                    ELSE Entering
               ELSE IF glfw.windows[w].monitor # NULL
                    THEN changeMonitor(releaseMonitor(Entering, w), w, monitor)
                    ELSE changeMonitor(Entering, w, monitor))

\* two windows and one monitor
NextMonitor ==
    \/ \E w \in WinIds, monitor \in Monitors : glfwPlatformSetWindowMonitor(w, monitor)
    \/ \E w \in WinIds : windowDidMiniaturize(w)
    \/ \E w \in WinIds : windowDidDeminiaturize(w)

MonitorSpec == Init /\ [][NextMonitor]_vars

\* the sizes of one window
NextSize ==
    \/ \E frame \in Frames, zoomed \in BOOLEAN : windowDidResize(1, frame, zoomed)
    \/ \E scale \in Scales : viewDidChangeBackingProperties(1, scale)

SizeSpec == Init /\ [][NextSize]_vars

\* the cursor of one window: its mode, its image, and the mouse entering
\* and leaving
NextCursor ==
    \/ \E w \in WinIds, mode \in CursorModes : glfwSetInputMode(w, mode)
    \/ \E c \in Cursors : glfwSetCursor(1, c)
    \/ \E w \in WinIds : cursorUpdate(w)
    \/ \E w \in WinIds : mouseExited(w)
    \/ \E w \in WinIds : mouseEntered(w)
    \/ \E p \in {0} \cup ContentArea(1) : mouseMoved(p)
    \/ windowDidBecomeKey(1)

CursorSpec == Init /\ [][NextCursor]_vars

\* the cursor mode of two windows that take the focus in turn and can be
\* destroyed
NextMode ==
    \/ \E w \in WinIds, mode \in CursorModes : glfwSetInputMode(w, mode)
    \/ \E p \in Places : mouseMoved(p)
    \/ \E w \in WinIds : windowDidBecomeKey(w)
    \/ \E w \in WinIds : windowDidResignKey(w)
    \/ \E w \in WinIds : glfwPlatformDestroyWindow(w)

ModeSpec == Init /\ [][NextMode]_vars

----------------------------------------------------------------------------
(* The concurrent program: every goroutine makes one call, a step of a     *)
(* call is one action.  The generic cache admits one computation per key   *)
(* at a time and lets computations of different keys overlap; the file     *)
(* itself takes no lock in shape, shapeImpl or getOrCreateGlyphImage.      *)

ConcTexts == {<<1>>, <<2, 3>>}
ConcFaces == {BaseFace, [BaseFace EXCEPT !.variations = <<<<1, 2>>>>]}
ConcImageFaces == {BaseFace, [BaseFace EXCEPT !.variations = <<<<1, 1>>, <<2, 1>>>>]}

Frame(op, g, text, face, key, cacheable, pc) ==
    [pc |-> pc, op |-> op, g |-> g, text |-> text, face |-> face, key |-> key,
     cacheable |-> cacheable, cache |-> 0, inputs |-> <<>>, outputs |-> <<>>,
     gs |-> <<>>, i |-> 0, k |-> 0, seen |-> {}, value |-> NoValue,
     hit |-> FALSE, computed |-> FALSE]

\* lines 169-171: copyCheck, then the cache key
BeginShape(t, g, text, face) ==
    /\ th[t].pc = "idle"
    /\ g \in DOMAIN sources
    /\ LET fr == Frame("shape", g, text, face, outputCacheKey(face, text), shapeCacheable, "idle")
       IN  th' = [th EXCEPT ![t] =
                     IF copyCheck(g)
                     THEN [fr EXCEPT !.pc = "getOrCreate", !.cache = sources[g].outputCache]
                     ELSE [fr EXCEPT !.pc = "panic"]]
    /\ UNCHANGED <<sources, fonts, caches, maps, nalloc, hist, log, glfw>>

\* an entry that lets one caller at a time compute, whatever the key
CacheEnterOneAtATime(t) ==
    /\ th[t].pc = "getOrCreate"
    /\ LET fr == th[t]
           c  == caches[fr.cache]
       IN  /\ c.inflight = {}
           /\ IF CacheHas(c, fr.key)
              THEN /\ caches' = [caches EXCEPT ![fr.cache] = CacheTouch(c, fr.key)]
                   /\ th' = [th EXCEPT ![t] = [fr EXCEPT !.pc = "done", !.hit = TRUE,
                                                         !.value = CacheValue(c, fr.key)]]
              ELSE /\ caches' = [caches EXCEPT ![fr.cache].inflight = @ \cup {fr.key}]
                   /\ th' = [th EXCEPT ![t] =
                                [fr EXCEPT !.pc = IF fr.op = "shape" THEN "SetVariations" ELSE "create",
                                           !.computed = TRUE]]
    /\ UNCHANGED <<sources, fonts, maps, nalloc, hist, log, glfw>>

\* getOrCreate, entry: a present key is returned; a key being computed by
\* another caller is waited for; otherwise this caller computes it
CacheEnter(t) ==
    /\ th[t].pc = "getOrCreate"
    /\ LET fr == th[t]
           c  == caches[fr.cache]
       IN  IF CacheHas(c, fr.key)
           THEN /\ caches' = [caches EXCEPT ![fr.cache] = CacheTouch(c, fr.key)]
                /\ th' = [th EXCEPT ![t] = [fr EXCEPT !.pc = "done", !.hit = TRUE,
                                                      !.value = CacheValue(c, fr.key)]]
           ELSE /\ fr.key \notin c.inflight
                /\ caches' = [caches EXCEPT ![fr.cache].inflight = @ \cup {fr.key}]
                /\ th' = [th EXCEPT ![t] =
                             [fr EXCEPT !.pc = IF fr.op = "shape" THEN "SetVariations" ELSE "create",
                                        !.computed = TRUE]]
    /\ UNCHANGED <<sources, fonts, maps, nalloc, hist, log, glfw>>

\* line 184
SetVariations(t) ==
    /\ th[t].pc = "SetVariations"
    /\ fonts' = setVariations(fonts, fontOf(th[t].face), th[t].face.variations)
    /\ th' = [th EXCEPT ![t].pc = "Split"]
    /\ UNCHANGED <<sources, caches, maps, nalloc, hist, log, glfw>>

\* lines 186-205
SegmenterSplit(t) ==
    /\ th[t].pc = "Split"
    /\ LET inputs == Inputs(th[t].text, th[t].face, fontOf(th[t].face))
       IN  th' = [th EXCEPT ![t].inputs = inputs, ![t].i = 1,
                            ![t].pc = IF inputs = <<>> THEN "store" ELSE "Shape"]
    /\ UNCHANGED <<sources, fonts, caches, maps, nalloc, hist, log, glfw>>

\* lines 210-213: the shaper runs on the font as it is now
ShaperShape(t) ==
    /\ th[t].pc = "Shape"
    /\ LET fr     == th[t]
           active == fonts[fontOf(fr.face)].variations
           out    == Shape(fr.inputs[fr.i], active)
       IN  th' = [th EXCEPT ![t] =
                     [fr EXCEPT !.outputs = Append(@, out), !.k = 1,
                                !.seen = @ \cup {active},
                                !.pc = IF out.Glyphs # <<>> THEN "GlyphData"
                                       ELSE IF fr.i < Len(fr.inputs) THEN "Shape"
                                       ELSE "store",
                                !.i = IF out.Glyphs # <<>> THEN @ ELSE @ + 1]]
    /\ UNCHANGED <<sources, fonts, caches, maps, nalloc, hist, log, glfw>>

\* lines 221-255 for one glyph: the outline is read from the font as it is now
ReadGlyphData(t) ==
    /\ th[t].pc = "GlyphData"
    /\ LET fr     == th[t]
           f      == fontOf(fr.face)
           active == fonts[sources[fr.g].f].variations
           out    == fr.outputs[fr.i]
           more   == fr.k < Len(out.Glyphs)
       IN  th' = [th EXCEPT ![t] =
                     IF indexPanics(fr.text, out.Glyphs[fr.k]) THEN [fr EXCEPT !.pc = "panic"] ELSE
                     [fr EXCEPT !.gs = Append(@, MakeGlyph(fr.text, out, out.Glyphs[fr.k], f, active)),
                                !.seen = @ \cup {active},
                                !.k = @ + 1,
                                !.i = IF more THEN @ ELSE @ + 1,
                                !.pc = IF more THEN "GlyphData"
                                       ELSE IF fr.i < Len(fr.inputs) THEN "Shape"
                                       ELSE "store"]]
    /\ UNCHANGED <<sources, fonts, caches, maps, nalloc, hist, log, glfw>>

\* lines 265-266 are two steps: the nil test, then the map's creation
BeginImage(t, g, face, key, cacheable) ==
    /\ th[t].pc = "idle"
    /\ g \in DOMAIN sources
    /\ th' = [th EXCEPT ![t] =
                 Frame("image", g, <<>>, face, key, cacheable,
                       IF sources[g].glyphImageCache = 0 THEN "makeMap" ELSE "checkSize")]
    /\ UNCHANGED <<sources, fonts, caches, maps, nalloc, hist, log, glfw>>

MakeMap(t) ==
    /\ th[t].pc = "makeMap"
    /\ maps' = Append(maps, <<>>)
    /\ sources' = [sources EXCEPT ![th[t].g].glyphImageCache = Len(maps) + 1]
    /\ th' = [th EXCEPT ![t].pc = "checkSize"]
    /\ UNCHANGED <<fonts, caches, nalloc, hist, log, glfw>>

\* line 268
CheckSize(t) ==
    /\ th[t].pc = "checkSize"
    /\ th' = [th EXCEPT ![t].pc =
                 IF missingSize(maps[sources[th[t].g].glyphImageCache], th[t].face.Size)
                 THEN "makeCache" ELSE "lookupMap"]
    /\ UNCHANGED <<sources, fonts, caches, maps, nalloc, hist, log, glfw>>

\* line 269
MakeCache(t) ==
    /\ th[t].pc = "makeCache"
    /\ LET mid == sources[th[t].g].glyphImageCache
           cid == Len(caches) + 1
           z0  == th[t].face.Size
       IN  /\ caches' = Append(caches, newCache(imageCacheCapacity(th[t].face)))
           /\ maps' = [maps EXCEPT ![mid] =
                          [z \in (DOMAIN @) \cup {z0} |-> IF z = z0 THEN cid ELSE @[z]]]
    /\ th' = [th EXCEPT ![t].pc = "lookupMap"]
    /\ UNCHANGED <<sources, fonts, nalloc, hist, log, glfw>>

\* line 271: the map is read again; a size that is missing from the map
\* (the map was replaced meanwhile) reads as a nil cache, and getOrCreate on
\* a nil cache panics
LookupMap(t) ==
    /\ th[t].pc = "lookupMap"
    /\ LET m == maps[sources[th[t].g].glyphImageCache]
           z == th[t].face.Size
       IN  th' = [th EXCEPT ![t].cache = IF z \in DOMAIN m THEN m[z] ELSE 0,
                            ![t].pc = IF z \in DOMAIN m THEN "getOrCreate" ELSE "panic"]
    /\ UNCHANGED <<sources, fonts, caches, maps, nalloc, hist, log, glfw>>

\* the map is not synchronized: a write that overlaps another goroutine's
\* access to the same map may also be caught by the runtime, which then
\* ends the program
MapAccess == {"checkSize", "makeCache", "lookupMap"}

MapRaceThrow(t) ==
    /\ th[t].pc = "makeCache"
    /\ \E u \in Threads \ {t} :
          /\ th[u].pc \in MapAccess
          /\ sources[th[u].g].glyphImageCache = sources[th[t].g].glyphImageCache
    /\ th' = [u \in Threads |-> [th[u] EXCEPT !.pc = "fatal"]]
    /\ UNCHANGED <<sources, fonts, caches, maps, nalloc, hist, log, glfw>>

\* the create callback of a glyph image request
Create(t) ==
    /\ th[t].pc = "create"
    /\ th' = [th EXCEPT ![t].pc = "store"]
    /\ UNCHANGED <<sources, fonts, caches, maps, nalloc, hist, log, glfw>>

\* getOrCreate, exit of the computing caller: the value is retained if the
\* callback signals cacheable, and returned
CacheStore(t) ==
    /\ th[t].pc = "store"
    /\ LET fr == th[t]
           c  == [caches[fr.cache] EXCEPT !.inflight = @ \ {fr.key}]
           v  == IF fr.op = "shape"
                 THEN [id |-> nalloc + 1, outputs |-> fr.outputs, glyphs |-> fr.gs]
                 ELSE [id |-> nalloc + 1]
       IN  /\ caches' = [caches EXCEPT ![fr.cache] =
                            IF fr.cacheable THEN CacheInsert(c, fr.key, v) ELSE c]
           /\ th' = [th EXCEPT ![t] = [fr EXCEPT !.pc = "done", !.value = v]]
    /\ nalloc' = nalloc + 1
    /\ UNCHANGED <<sources, fonts, maps, hist, log, glfw>>

NextConc ==
    \/ \E t \in Threads, text \in ConcTexts, face \in ConcFaces : BeginShape(t, 1, text, face)
    \/ \E t \in Threads, face \in ConcImageFaces, key \in ImageKeys, cacheable \in BOOLEAN :
          BeginImage(t, 1, face, key, cacheable)
    \/ \E t \in Threads : CacheEnter(t)
    \/ \E t \in Threads : SetVariations(t)
    \/ \E t \in Threads : SegmenterSplit(t)
    \/ \E t \in Threads : ShaperShape(t)
    \/ \E t \in Threads : ReadGlyphData(t)
    \/ \E t \in Threads : MakeMap(t)
    \/ \E t \in Threads : CheckSize(t)
    \/ \E t \in Threads : MakeCache(t)
    \/ \E t \in Threads : LookupMap(t)
    \/ \E t \in Threads : MapRaceThrow(t)
    \/ \E t \in Threads : Create(t)
    \/ \E t \in Threads : CacheStore(t)

ConcSpec == Init /\ [][NextConc]_vars

\* goroutines that shape one short text with one of two styles: callers of
\* the shaping cache with equal and with different keys
NextShapeConc ==
    \/ \E t \in Threads, face \in ConcFaces : BeginShape(t, 1, <<1>>, face)
    \/ \E t \in Threads : CacheEnter(t)
    \/ \E t \in Threads : SetVariations(t)
    \/ \E t \in Threads : SegmenterSplit(t)
    \/ \E t \in Threads : ShaperShape(t)
    \/ \E t \in Threads : ReadGlyphData(t)
    \/ \E t \in Threads : CacheStore(t)

ShapeConcSpec == Init /\ [][NextShapeConc]_vars

----------------------------------------------------------------------------
(* The generic cache on its own: a cache of a small capacity next to the   *)
(* source's shaping cache, accessed through getOrCreate with numbered keys *)

\* the cache created right after the source's shaping cache
TestCache == sources[1].outputCache + 1
TestKeys == 1..(MaxCap + 2)

InitCache ==
    /\ sources = (1 :> newGoTextFaceSource(1, 1, 1))
    /\ fonts = <<[variations |-> <<>>]>>
    /\ \E n \in 1..MaxCap : caches = <<newCache(outputCacheCapacity), newCache(n)>>
    /\ maps = <<>>
    /\ nalloc = 0
    /\ hist = <<>>
    /\ th = [t \in Threads |-> Idle]
    /\ log = <<>>
    /\ glfw = glfwInit

CacheAccess(key, cacheable) ==
    /\ Len(log) < MaxLog
    /\ LET r == getOrCreate(caches[TestCache], key, [id |-> nalloc + 1], cacheable)
       IN  /\ caches' = [caches EXCEPT ![TestCache] = r.cache]
           /\ nalloc' = IF r.hit THEN nalloc ELSE nalloc + 1
           /\ log' = Append(log, [key |-> key, cacheable |-> cacheable,
                                  hit |-> r.hit, value |-> r.value])
    /\ UNCHANGED <<sources, fonts, maps, hist, th, glfw>>

NextCache == \E key \in TestKeys, cacheable \in BOOLEAN : CacheAccess(key, cacheable)

CacheSpec == InitCache /\ [][NextCache]_vars

----------------------------------------------------------------------------
(* Properties of the sequential program *)

\* two StyledRuns are cache-equivalent: every field equal, features and
\* variations in canonical form
CacheEquivalent(f1, f2) ==
    /\ f1.Size = f2.Size
    /\ f1.Direction = f2.Direction
    /\ f1.Language = f2.Language
    /\ f1.Script = f2.Script
    /\ Canon(f1.variations) = Canon(f2.variations)
    /\ Canon(f1.features) = Canon(f2.features)

\* the style fields in which two faces differ
DiffFields(f1, f2) ==
    {n \in {"Size", "Direction", "Language", "Script", "variations", "features"} :
        f1[n] # f2[n]}

\* positions i such that calls i and i + 1 are both of kind op, on the same
\* source, and both returned
Consecutive(op) ==
    {i \in 1..(Len(hist) - 1) :
        /\ hist[i].op = op /\ hist[i + 1].op = op
        /\ hist[i].g = hist[i + 1].g
        /\ hist[i].outcome = "ok" /\ hist[i + 1].outcome = "ok"}

\* C1: of two consecutive shape calls on one Face Source with the same text
\* and cache-equivalent styles, the second returns the result object of the
\* first (same outputs, glyphs, cluster spans, scaled outlines) and does no
\* shaping work: shapeImpl is not entered, SetVariations, Split, Shape and
\* GlyphData are not called.
C1_RepeatedShapeIsHit ==
    \A i \in Consecutive("shape") :
        (hist[i].text = hist[i + 1].text /\ CacheEquivalent(hist[i].face, hist[i + 1].face))
            => /\ hist[i + 1].value = hist[i].value
               /\ hist[i + 1].work = NoWork

C1_Witness ==
    \E i \in Consecutive("shape") :
        /\ hist[i].text = <<2, 3>> /\ hist[i + 1].text = <<2, 3>>
        /\ CacheEquivalent(hist[i].face, hist[i + 1].face)
        /\ hist[i].work.Shape = 2 /\ hist[i].work.GlyphData = 2
        /\ hist[i + 1].hit

\* C2: with the text fixed, a style that differs from the previous call's in
\* exactly one field has a different cache key; the call misses, runs the
\* shaping pipeline and does not return the result stored for the other style.
C2_SingleFieldChangeMisses ==
    \A i \in Consecutive("shape") :
        (hist[i].text = hist[i + 1].text
           /\ Cardinality(DiffFields(hist[i].face, hist[i + 1].face)) = 1)
            => /\ hist[i + 1].key # hist[i].key
               /\ ~hist[i + 1].hit
               /\ hist[i + 1].work.shapeImpl = 1
               /\ hist[i + 1].value.id # hist[i].value.id

\* C2 as amended: the key differs and the result stored for the other style
\* is not returned; the call misses and runs the shaping pipeline unless an
\* earlier call shaped the same text with the changed style, whose result is
\* then returned.
C2_SingleFieldChangeNewKey ==
    \A i \in Consecutive("shape") :
        (hist[i].text = hist[i + 1].text
           /\ Cardinality(DiffFields(hist[i].face, hist[i + 1].face)) = 1)
            => LET b     == hist[i + 1]
                   before == {j \in 1..(i - 1) :
                                 /\ hist[j].op = "shape" /\ hist[j].outcome = "ok"
                                 /\ hist[j].text = b.text
                                 /\ CacheEquivalent(hist[j].face, b.face)}
               IN  /\ b.key # hist[i].key
                   /\ b.value.id # hist[i].value.id
                   /\ before = {} => (~b.hit /\ b.work.shapeImpl = 1)
                   /\ before # {} => (b.hit /\ \A j \in before : b.value = hist[j].value)

C2_Witness ==
    \E i \in Consecutive("shape") :
        /\ i = 1
        /\ hist[i].text = <<2, 3>> /\ hist[i + 1].text = <<2, 3>>
        /\ DiffFields(hist[i].face, hist[i + 1].face) = {"features"}
        /\ ~hist[i + 1].hit /\ hist[i + 1].work.Shape = 2

\* C5: a shape call on a by-value copy (addr differs from the struct's own
\* address) panics, returns nothing and leaves the caches, the font and the
\* allocation count as they were; a shape call on the constructed instance
\* does not panic.
C5_ShapeOnCopyPanics ==
    [][(Len(hist') = Len(hist) + 1 /\ Last(hist').op = "shape") =>
          LET c == Last(hist')
          IN  IF sources[c.g].addr # c.g
              THEN /\ c.outcome = "panic" /\ c.value = NoValue /\ c.work = NoWork
                   /\ UNCHANGED <<caches, fonts, maps, nalloc, sources>>
              ELSE c.outcome = "ok"]_vars

C5_Witness ==
    /\ Len(hist) = 2
    /\ hist[1].op = "shape" /\ hist[1].g = 1 /\ hist[1].outcome = "ok"
    /\ hist[2].op = "shape" /\ hist[2].g = 2 /\ hist[2].outcome = "panic"

\* C6: every cache-touching call, getOrCreateGlyphImage included, panics on
\* a by-value copy of the source.
C6_EveryCallOnCopyPanics ==
    \A i \in 1..Len(hist) :
        sources[hist[i].g].addr # hist[i].g => hist[i].outcome = "panic"

\* C7: a glyph image whose create callback signals "do not cache" is returned
\* but not retained, the next request for the same size and key calls create
\* again; an image signalled cacheable is returned by the next request
\* without calling create.
C7_DoNotCacheIsNotRetained ==
    \A i \in Consecutive("image") :
        (hist[i].face.Size = hist[i + 1].face.Size /\ hist[i].key = hist[i + 1].key)
            => /\ ~hist[i].hit => hist[i].value.id \notin {0} \cup {hist[j].value.id : j \in 1..(i - 1)}
               /\ (~hist[i].hit /\ ~hist[i].cacheable)
                     => (~hist[i + 1].hit /\ hist[i + 1].value.id # hist[i].value.id)
               /\ (hist[i].hit \/ hist[i].cacheable)
                     => (hist[i + 1].hit /\ hist[i + 1].value = hist[i].value)

C7_Witness ==
    \E i \in Consecutive("image") :
        /\ hist[i].face.Size = hist[i + 1].face.Size /\ hist[i].key = hist[i + 1].key
        /\ ~hist[i].hit /\ ~hist[i].cacheable /\ ~hist[i + 1].hit

\* the sizes requested so far through the image cache map m
RequestedSizes(m) ==
    {hist[i].face.Size : i \in {j \in 1..Len(hist) : hist[j].op = "image" /\ hist[j].map = m}}

\* C9: every source keeps the shaping cache made at construction; an image
\* cache map holds one cache per size requested so far, no cache serves two
\* sizes or is the shaping cache; once a size has its cache, that instance
\* keeps serving the size and keeps its capacity and retained entries.
C9_OneCachePerSize ==
    /\ [](/\ \A g \in DOMAIN sources : sources[g].outputCache = 1
          /\ \A m \in 1..Len(maps) :
                /\ DOMAIN maps[m] = RequestedSizes(m)
                /\ \A z1, z2 \in DOMAIN maps[m] :
                      /\ maps[m][z1] \in 2..Len(caches)
                      /\ z1 # z2 => maps[m][z1] # maps[m][z2]
          /\ \A i \in 1..Len(hist) :
                (hist[i].op = "image" /\ hist[i].outcome = "ok")
                    => hist[i].cache = maps[hist[i].map][hist[i].face.Size])
    /\ [][\A m \in 1..Len(maps) : \A z \in DOMAIN maps[m] :
             /\ z \in DOMAIN maps'[m]
             /\ maps'[m][z] = maps[m][z]
             /\ caches'[maps[m][z]].cap = caches[maps[m][z]].cap
             /\ Len(caches[maps[m][z]].values) < caches[maps[m][z]].cap
                   => CacheKeys(caches[maps[m][z]]) \subseteq CacheKeys(caches'[maps[m][z]])]_vars

C9_Witness ==
    \E i \in Consecutive("image") :
        /\ hist[i].face.Size = hist[i + 1].face.Size
        /\ hist[i].key # hist[i + 1].key
        /\ hist[i].cacheable /\ hist[i + 1].cacheable
        /\ Cardinality(CacheKeys(caches[hist[i].cache])) = 2

\* C10: the image cache that serves a request has capacity baseCapacity
\* times the variation-configuration count of the requesting style.
C10_CapacityFollowsStyle ==
    \A i \in 1..Len(hist) :
        (hist[i].op = "image" /\ hist[i].outcome = "ok")
            => caches[hist[i].cache].cap = baseCapacity * glyphVariationCount(hist[i].face)

----------------------------------------------------------------------------
(* Properties of the concurrent program *)

\* two goroutines whose calls ask one cache tier for the same key: the same
\* text and style for shape, the same size and image key for glyph images,
\* with cacheable computations
SameRequest(t, u) ==
    /\ th[t].pc = "done" /\ th[u].pc = "done"
    /\ th[t].op = th[u].op /\ th[t].g = th[u].g
    /\ th[t].key = th[u].key
    /\ th[t].face.Size = th[u].face.Size
    /\ th[t].cacheable /\ th[u].cacheable

\* C3: of the callers that ask for the same new key, one runs the compute
\* callback and all receive the same value; no cache instance holds two
\* values for one key.
C3_ComputeOncePerKey ==
    /\ \A t, u \in Threads :
          (t # u /\ SameRequest(t, u))
              => /\ th[t].value = th[u].value
                 /\ ~(th[t].computed /\ th[u].computed)
    /\ \A c \in 1..Len(caches) :
          \A i, j \in 1..Len(caches[c].values) :
              caches[c].values[i].key = caches[c].values[j].key => i = j

\* the same statement for the shaping cache alone
ShapeComputeOncePerKey ==
    \A t, u \in Threads :
        (t # u /\ SameRequest(t, u) /\ th[t].op = "shape")
            => /\ th[t].value = th[u].value
               /\ ~(th[t].computed /\ th[u].computed)

\* C4: every Shaper.Shape and every GlyphData of a shape call observes the
\* variation configuration that the same call applied with SetVariations.
C4_ShapingSeesOwnVariations ==
    \A t \in Threads :
        (th[t].pc # "idle" /\ th[t].op = "shape")
            => \A v \in th[t].seen : v = th[t].face.variations

\* the image caches created so far: every cache but the shaping cache
ImageCaches == 2..Len(caches)

\* C11: of the callers that concurrently ask for images of one size, one
\* creates and registers the size's image cache and all delegate to it: no
\* second map or second cache for the size is made, no caller is left with a
\* nil cache or ended by the runtime, and a value retained through a
\* completed call is still in the cache registered for the size.
C11_OneImageCachePerSizeConcurrently ==
    /\ Len(maps) <= 1
    /\ Cardinality(ImageCaches) =
          Cardinality(UNION {DOMAIN maps[m] : m \in 1..Len(maps)})
    /\ \A t \in Threads : th[t].pc \notin {"panic", "fatal"}
    /\ \A t \in Threads :
          (th[t].pc = "done" /\ th[t].op = "image")
              => /\ th[t].cache = maps[sources[th[t].g].glyphImageCache][th[t].face.Size]
                 /\ (th[t].computed /\ th[t].cacheable)
                       => CacheHas(caches[maps[sources[th[t].g].glyphImageCache][th[t].face.Size]],
                                   th[t].key)

\* the goroutines that are inside getOrCreate's compute callback
Computing ==
    {t \in Threads : th[t].pc \in {"SetVariations", "Split", "Shape", "GlyphData", "create", "store"}}

\* the next step of a goroutine inside the compute callback
ComputeStep(t) ==
    \/ SetVariations(t)
    \/ SegmenterSplit(t)
    \/ ShaperShape(t)
    \/ ReadGlyphData(t)
    \/ Create(t)
    \/ CacheStore(t)

-----------------------------------------------------------------------------
(* The result as a function of text and style (Spec) *)

\* the completed shape calls that ran the pipeline
Shaped == {i \in 1..Len(hist) : hist[i].op = "shape" /\ hist[i].outcome = "ok" /\ ~hist[i].hit}

\* what the pipeline yields for a text and a style when the shaper and the
\* outlines are read with the style's own variation configuration: a value
\* that depends on nothing but the text and the style
ResultOf(text, face, f) ==
    LET inputs  == Inputs(text, face, f)
        outputs == [i \in 1..Len(inputs) |-> Shape(inputs[i], face.variations)]
    IN  [outputs |-> outputs,
         glyphs  |-> Flatten([i \in 1..Len(outputs) |->
                                 GlyphsOf(text, outputs[i], f, face.variations)])]

\* C20: in a sequential history the result of a shape call that misses the
\* cache is a function of its text and style only: the outputs and glyphs
\* are those of the style's own variation configuration, whichever
\* configuration earlier shape calls left active on the font.
C20_ResultDependsOnTextAndStyleOnly ==
    \A i \in Shaped :
        LET ref == ResultOf(hist[i].text, hist[i].face, sources[hist[i].g].f)
        IN  /\ hist[i].value.outputs = ref.outputs
            /\ hist[i].value.glyphs = ref.glyphs
            /\ \A k \in 1..Len(hist[i].value.outputs) :
                  hist[i].value.outputs[k].variations = hist[i].face.variations

\* a miss with weight 2 left active on the font by the call before it, whose
\* result is that of its own weight 1; the font ends with weight 1 active
C20_Witness ==
    /\ Len(hist) = 2 /\ {1, 2} \subseteq Shaped
    /\ hist[1].text = <<2, 3>> /\ hist[2].text = <<2, 3>>
    /\ hist[1].face.variations = <<<<1, 2>>>>
    /\ hist[2].face.variations = <<<<1, 1>>>>
    /\ hist[2].value.outputs[1].variations = <<<<1, 1>>>>
    /\ hist[2].value.glyphs # hist[1].value.glyphs
    /\ fonts[sources[1].f].variations = <<<<1, 1>>>>

-----------------------------------------------------------------------------
(* The font's active variation configuration (Spec) *)

\* the shape calls that missed the cache: their create callback ran
Missed == {i \in 1..Len(hist) : hist[i].op = "shape" /\ hist[i].work.shapeImpl = 1}

MissedOn(f) == {i \in Missed : fontOf(hist[i].face) = f}

\* C31: a shape call that hits the shaping cache leaves the font's active
\* variation configuration unchanged and a call that misses sets it to the
\* configuration of its style: after every sequential history the active
\* configuration of a font is that of the most recent shape call that missed
\* (the configuration of construction when none missed), whatever the style
\* of the shape calls that hit after it.
C31_ActiveVariationsAreLastMiss ==
    \A f \in DOMAIN fonts :
        fonts[f].variations =
            IF MissedOn(f) = {} THEN NewFace.variations
            ELSE hist[CHOOSE i \in MissedOn(f) : \A j \in MissedOn(f) : j <= i].face.variations

\* two misses with different weights and then a hit with the first weight:
\* the font keeps the weight of the second call, not that of the last one
C31_Witness ==
    /\ Len(hist) = 3
    /\ Missed = {1, 2}
    /\ hist[3].op = "shape" /\ hist[3].outcome = "ok" /\ hist[3].hit
    /\ hist[3].key = hist[1].key
    /\ hist[1].face.variations # hist[2].face.variations
    /\ fonts[sources[1].f].variations = hist[2].face.variations
    /\ fonts[sources[1].f].variations # hist[3].face.variations

-----------------------------------------------------------------------------
(* The font of a shape call (SourceSpec) *)

\* the entries of the shaping cache of source g
OutputEntries(g) ==
    {caches[sources[g].outputCache].values[i] :
        i \in 1..Len(caches[sources[g].outputCache].values)}

-----------------------------------------------------------------------------
(* The cursor of the Cocoa window layer (CursorSpec) *)

\* C33: the cursor helpers are balanced: after any sequence of handlers that
\* hide, show or update the cursor, the system's cursor has been hidden once
\* more than it has been unhidden when cursorHidden is set and as often when
\* it is clear; hideCursor on a hidden cursor and showCursor on a shown
\* cursor make no system call.
C33_CursorHidesAreBalanced ==
    glfw.NSCursor.hides = IF glfw.ns.cursorHidden THEN 1 ELSE 0

\* the mouse entered a window in hidden mode while the cursor was hidden
\* already: one [NSCursor hide] is outstanding, not two
C33_Witness ==
    /\ glfw.last.op = "mouseEntered"
    /\ glfw.windows[glfw.last.window].cursorMode = "GLFW_CURSOR_HIDDEN"
    /\ glfw.last.hidden
    /\ glfw.ns.cursorHidden
    /\ glfw.NSCursor.hides = 1

\* C34: right after updateCursorImage ran for a window, the cursor is shown
\* if the window's cursor mode is GLFW_CURSOR_NORMAL and hidden for every
\* other mode; in normal mode the window's own cursor is set when it has one
\* and the arrow cursor otherwise.
C34_CursorImageFollowsMode ==
    glfw.imaged # NULL =>
        LET window == glfw.windows[glfw.imaged]
        IN  IF window.cursorMode = "GLFW_CURSOR_NORMAL"
            THEN /\ ~glfw.ns.cursorHidden
                 /\ glfw.NSCursor.current =
                        IF window.cursor # NoCursor THEN window.cursor ELSE "arrowCursor"
            ELSE glfw.ns.cursorHidden

\* cursorUpdate hid the shown cursor of a window in hidden mode
C34_Witness ==
    /\ glfw.last.op = "cursorUpdate"
    /\ glfw.imaged = glfw.last.window
    /\ glfw.windows[glfw.imaged].cursorMode = "GLFW_CURSOR_HIDDEN"
    /\ ~glfw.last.hidden
    /\ glfw.ns.cursorHidden

-----------------------------------------------------------------------------
(* The disabled cursor (ModeSpec) *)

\* C35: when updateCursorMode takes a window out of disabled-cursor mode the
\* cursor is moved back to the place it had when that window entered the
\* mode, and disabledCursorWindow becomes NULL; calls of updateCursorMode
\* while the window stays in the mode, as on each windowDidBecomeKey, do not
\* change the position that will be restored.
C35_RestoresPositionOfEntry ==
    [][\A w \in WinIds :
          /\ (/\ glfw.ns.disabledCursorWindow = w
              /\ glfw'.ns.disabledCursorWindow = NULL
              /\ glfw'.windows[w].live)
             => glfw'.mouse.pos = glfw.entered
          /\ (/\ glfw.ns.disabledCursorWindow = w
              /\ glfw'.ns.disabledCursorWindow = w)
             => glfw'.ns.restoreCursorPos = glfw.ns.restoreCursorPos]_vars

\* C36: disabledCursorWindow never refers to a destroyed window:
\* _glfwPlatformDestroyWindow clears it when it is the window destroyed, a
\* destroyed window has no delegate, view or native object left, and a
\* window becomes the disabledCursorWindow only while its cursor mode is
\* GLFW_CURSOR_DISABLED.
C36_DisabledCursorWindowIsLive ==
    [][/\ glfw'.ns.disabledCursorWindow # NULL
          => glfw'.windows[glfw'.ns.disabledCursorWindow].live
       /\ \A w \in WinIds :
             ~glfw'.windows[w].live
                => /\ glfw'.windows[w].ns.delegate = "nil"
                   /\ glfw'.windows[w].ns.view = "nil"
                   /\ glfw'.windows[w].ns.object = "nil"
       /\ (/\ glfw'.ns.disabledCursorWindow # NULL
           /\ glfw'.ns.disabledCursorWindow # glfw.ns.disabledCursorWindow)
          => glfw'.windows[glfw'.ns.disabledCursorWindow].cursorMode = "GLFW_CURSOR_DISABLED"]_vars

\* the window that was the disabledCursorWindow has been destroyed
C36_Witness ==
    /\ glfw.last.op = "glfwPlatformDestroyWindow"
    /\ glfw.last.disabled = glfw.last.window
    /\ ~glfw.windows[glfw.last.window].live
    /\ glfw.ns.disabledCursorWindow = NULL

-----------------------------------------------------------------------------
(* Size notifications (SizeSpec) *)

\* the sizes the handler that ran last looks after are cached as they are
CachedIsCurrent(w) ==
    /\ 2 * glfw.windows[w].ns.fbWidth = fbRect(glfw, w)[1]
    /\ 2 * glfw.windows[w].ns.fbHeight = fbRect(glfw, w)[2]
    /\ glfw.last.op = "windowDidResize"
       => /\ 2 * glfw.windows[w].ns.width = contentRect(glfw, w)[1]
          /\ 2 * glfw.windows[w].ns.height = contentRect(glfw, w)[2]

\* two successive events of one kind for window w carry different sizes
EventsDiffer(w) ==
    /\ Len(glfw.sent[w].FramebufferSize) = 2
       => glfw.sent[w].FramebufferSize[1] # glfw.sent[w].FramebufferSize[2]
    /\ Len(glfw.sent[w].WindowSize) = 2
       => glfw.sent[w].WindowSize[1] # glfw.sent[w].WindowSize[2]

\* C37: size notifications are emitted only on change: after windowDidResize
\* and viewDidChangeBackingProperties the cached sizes equal the current
\* ones, so two successive framebuffer-size events, and two successive
\* window-size events, never carry the same size.
C37_SizeEventsOnlyOnChange ==
    /\ glfw.last.op \in {"windowDidResize", "viewDidChangeBackingProperties"}
       => CachedIsCurrent(glfw.last.window)
    /\ \A w \in WinIds : EventsDiffer(w)

-----------------------------------------------------------------------------
(* The monitor of a full-screen window (MonitorSpec) *)

FullScreen == {w \in WinIds : glfw.windows[w].live /\ glfw.windows[w].monitor # NULL}

\* the monitor with no window and its original video mode
Released == [window |-> NULL, videoMode |-> "original"]

\* C38, as stated: a full-screen window owns the monitor exactly when it is
\* not miniaturized.
C38_OwnedIffNotMiniaturized ==
    \A w \in FullScreen :
        (glfw.monitor.window = w) <=> ~glfw.windows[w].miniaturized

\* C38, amended: releaseMonitor restores the video mode and clears the
\* monitor's window only for the window the monitor has, and changes nothing
\* otherwise; the miniaturize of a full-screen window that has the monitor
\* releases it, its deminiaturize acquires it, so right after a miniaturize
\* or deminiaturize event of a full-screen window that window has the monitor
\* exactly when it is not miniaturized (another window that acquired the
\* monitor meanwhile keeps it through the miniaturize, and loses it to the
\* deminiaturize).
C38_ReleaseOnlyByOwner ==
    [][/\ glfw'.last.op = "windowDidMiniaturize" /\ glfw'.last.window \in FullScreen
          => /\ glfw'.monitor = IF glfw.monitor.window = glfw'.last.window
                                THEN Released ELSE glfw.monitor
             /\ glfw'.monitor.window # glfw'.last.window
             /\ glfw'.windows[glfw'.last.window].miniaturized
       /\ glfw'.last.op = "windowDidDeminiaturize" /\ glfw'.last.window \in FullScreen
          => /\ glfw'.monitor = [window |-> glfw'.last.window, videoMode |-> "window"]
             /\ ~glfw'.windows[glfw'.last.window].miniaturized]_vars

\* a full-screen window was miniaturized while the other one had the monitor
C38_Witness ==
    /\ FullScreen = WinIds
    /\ glfw.last.op = "windowDidMiniaturize"
    /\ glfw.monitor.window \in WinIds \ {glfw.last.window}
    /\ glfw.monitor.videoMode = "window"

-----------------------------------------------------------------------------
(* The Face Source a constructor returns (ImageSpec) *)

\* the getOrCreateGlyphImage calls made on g so far
ImageCalls(g) == {i \in 1..Len(hist) : hist[i].op = "image" /\ hist[i].g = g}

\* C39: before any operation a Face Source returned by a constructor has its
\* own address in addr, a shaping cache of capacity 512 with nothing in it,
\* and no image-cache collection; the first getOrCreateGlyphImage call makes
\* the collection and every later call uses that one, which keeps the image
\* cache of every size requested so far.
C39_ConstructedThenOneCollection ==
    \A g \in DOMAIN sources :
        /\ hist = <<>>
           => /\ sources[g].addr = g
              /\ caches[sources[g].outputCache] = newCache(512)
              /\ sources[g].glyphImageCache = 0
        /\ ImageCalls(g) = {} => sources[g].glyphImageCache = 0
        /\ \A i \in ImageCalls(g) :
              /\ hist[i].map # 0
              /\ hist[i].map = sources[g].glyphImageCache
              /\ hist[i].face.Size \in DOMAIN maps[hist[i].map]

\* three calls with two sizes: the collection of the first call holds both
C39_Witness ==
    /\ Len(hist) = 3
    /\ ImageCalls(1) = {1, 2, 3}
    /\ hist[1].face.Size # hist[3].face.Size
    /\ hist[1].map = hist[3].map
    /\ DOMAIN maps[sources[1].glyphImageCache] = {hist[1].face.Size, hist[3].face.Size}

-----------------------------------------------------------------------------
(* Properties of the shaping pipeline (PipeSpec) *)

\* len(text): the number of bytes of the text's UTF-8 encoding
RECURSIVE TextBytes(_)
TextBytes(text) == IF text = <<>> THEN 0 ELSE ByteLen(Head(text)) + TextBytes(Tail(text))

\* C13: with the one-glyph-per-scalar font, the glyph ranges of a shaped
\* non-empty text tile [0, len(text)): every byte offset lies in the range
\* [startIndex, endIndex) of exactly one glyph and no range is empty or
\* reaches past len(text), also when scalars take two bytes.
C13_ClusterCoverage ==
    \A i \in Shaped :
        LET gs == hist[i].value.glyphs
            n  == TextBytes(hist[i].text)
        IN  (hist[i].text # <<>>)
                => /\ \A b \in 0..(n - 1) :
                         Cardinality({k \in 1..Len(gs) :
                                        gs[k].startIndex <= b /\ b < gs[k].endIndex}) = 1
                   /\ \A k \in 1..Len(gs) :
                         /\ 0 <= gs[k].startIndex
                         /\ gs[k].startIndex < gs[k].endIndex
                         /\ gs[k].endIndex <= n

\* a shaped text of a one-byte scalar between two-byte scalars, its last
\* glyph range ending at byte 5
C13_Witness ==
    /\ Len(hist) = 1 /\ 1 \in Shaped
    /\ hist[1].text = <<2, 1, 3>>
    /\ Len(hist[1].value.glyphs) = 3
    /\ \E k \in 1..3 : hist[1].value.glyphs[k].startIndex = 3
                        /\ hist[1].value.glyphs[k].endIndex = 5

\* the sub-runs of the text in text order, as the segmenter returns them
SubRuns(text, face) ==
    Split(ShapingInput(text, face, sources[1].f), singleFontmap(sources[1].f))

\* C14: the outputs are the shaped sub-runs of the text, in text order when
\* the style direction is left-to-right or top-to-bottom and in exactly the
\* reverse sub-run order when it is right-to-left; each output holds the
\* glyphs as the shaper ordered them for that sub-run alone, and the glyph
\* list follows the outputs' order.
C14_SubRunOrder ==
    \A i \in Shaped :
        LET runs == SubRuns(hist[i].text, hist[i].face)
            outs == hist[i].value.outputs
            n    == Len(runs)
            RunOf(k) == IF hist[i].face.Direction = "RightToLeft" THEN runs[n + 1 - k]
                        ELSE runs[k]
        IN  /\ Len(outs) = n
            /\ \A k \in 1..n :
                  /\ outs[k].RunStart = RunOf(k).RunStart
                  /\ outs[k].RunEnd = RunOf(k).RunEnd
                  /\ outs[k].Glyphs = Shape(RunOf(k), hist[i].face.variations).Glyphs
            /\ [k \in 1..Len(hist[i].value.glyphs) |-> hist[i].value.glyphs[k].shapingGlyph]
                  = Flatten([k \in 1..n |-> outs[k].Glyphs])

\* a right-to-left call on a text of three sub-runs: the outputs are the
\* sub-runs last to first
C14_Witness ==
    /\ Len(hist) = 1 /\ 1 \in Shaped
    /\ hist[1].face.Direction = "RightToLeft"
    /\ hist[1].text = <<2, 3, 1>>
    /\ Len(hist[1].value.outputs) = 3
    /\ hist[1].value.outputs[1].RunStart = 2
    /\ hist[1].value.outputs[3].RunStart = 0

\* the output a glyph of a result belongs to
OutputOf(v, k) ==
    CHOOSE o \in 1..Len(v.outputs) :
        LET before == Len(Flatten([m \in 1..(o - 1) |-> v.outputs[m].Glyphs]))
        IN  before < k /\ k <= before + Len(v.outputs[o].Glyphs)

\* C15: for every glyph and every coordinate (x, y) of every segment of its
\* raw outline, the scaled segment holds (x * scale, y * -scale), where
\* scale is the output's shaping size over the font's units per em
\* (coordinates are numerators over 64 * Upem, rounding to float32 is left
\* out); a raw y > 0 becomes a Y < 0, and the number and the operations of
\* the segments are those of the raw outline.
C15_ScaleSignLaw ==
    \A i \in Shaped :
        LET v == hist[i].value
        IN  \A k \in 1..Len(v.glyphs) :
                LET out    == v.outputs[OutputOf(v, k)]
                    raw    == OutlineSegments(out, v.glyphs[k].shapingGlyph, sources[1].f,
                                              hist[i].face.variations)
                    scaled == v.glyphs[k].scaledSegments
                IN  /\ out.Size > 0
                    /\ Len(scaled) = Len(raw)
                    /\ \A m \in 1..Len(raw) :
                          /\ scaled[m].Op = raw[m].Op
                          /\ \A j \in 1..3 :
                                /\ scaled[m].Args[j].X = raw[m].Args[j].X * out.Size
                                /\ scaled[m].Args[j].Y = 0 - (raw[m].Args[j].Y * out.Size)
                                /\ (raw[m].Args[j].Y > 0) => (scaled[m].Args[j].Y < 0)

\* a shaped glyph whose raw outline starts at (1, 2) and whose scaled outline
\* starts below the baseline, at size 4.0
C15_Witness ==
    /\ Len(hist) = 1 /\ 1 \in Shaped
    /\ hist[1].face.Size = 512
    /\ \E k \in 1..Len(hist[1].value.glyphs) :
          LET g == hist[1].value.glyphs[k]
          IN  /\ g.shapingGlyph.GlyphID = 1
              /\ Len(g.scaledSegments) = 2
              /\ g.scaledSegments[1].Args[1].X > 0
              /\ g.scaledSegments[1].Args[1].Y < 0

-----------------------------------------------------------------------------
(* Properties of shaping with a faulty shaper (FaultSpec) *)

\* the shaper reports, for some sub-run of the text, a glyph whose cluster
\* lies outside the positions 0..number of scalars
ReportsBadCluster(text, face) ==
    LET runs == SubRuns(text, face)
    IN  \E r \in 1..Len(runs) :
            LET gls == Shape(runs[r], face.variations).Glyphs
            IN  \E k \in 1..Len(gls) :
                    \/ gls[k].ClusterIndex < 0
                    \/ gls[k].ClusterIndex > Len(text)
                    \/ gls[k].ClusterIndex + gls[k].RuneCount < 0
                    \/ gls[k].ClusterIndex + gls[k].RuneCount > Len(text)

\* C21: a shape call for which the shaper reports a cluster outside the
\* index table of the text ends in a panic after it entered the pipeline:
\* it returns no result, whole or partial, and nothing is stored under its
\* key, so every later call with the key enters the pipeline again; calls
\* for which every cluster is in range return.
C21_OutOfRangeClusterIsFatal ==
    \A i \in 1..Len(hist) :
        IF ReportsBadCluster(hist[i].text, hist[i].face)
        THEN /\ hist[i].outcome = "panic"
             /\ hist[i].value = NoValue
             /\ ~hist[i].hit
             /\ hist[i].work.shapeImpl = 1
             /\ ~CacheHas(caches[hist[i].cache], hist[i].key)
        ELSE hist[i].outcome = "ok"

\* the same text with a bad second cluster shaped twice: both calls panic at
\* the second glyph, the cache stays empty
C21_Witness ==
    /\ Len(hist) = 2
    /\ hist[1].text = <<1, 6>> /\ hist[2].text = <<1, 6>>
    /\ hist[1].face = hist[2].face
    /\ hist[1].outcome = "panic" /\ hist[2].outcome = "panic"
    /\ hist[2].work.shapeImpl = 1 /\ hist[2].work.GlyphData = 2
    /\ caches[hist[2].cache].values = <<>>

-----------------------------------------------------------------------------
(* Properties of Metadata (MetaSpec) *)

\* C22: Metadata returns what it returned right after construction, after
\* any shape calls with any variation configurations and any image
\* requests, and a call of it changes no source, cache, map or font state.
C22_MetadataIsPureAccessor ==
    [][/\ \A i \in 1..Len(hist') :
              (hist'[i].op = "Metadata")
                  => hist'[i].value = metadataFromFace(NewFace)
       /\ (Len(hist') = Len(hist) + 1 /\ Last(hist').op = "Metadata")
              => UNCHANGED <<sources, fonts, caches, maps, nalloc>>]_vars

\* Metadata read after a shape call that set a weight on the font and after
\* an image request
C22_Witness ==
    /\ Len(hist) = 3
    /\ hist[1].op = "shape" /\ hist[1].face.variations = <<<<1, 2>>>>
    /\ hist[2].op = "image"
    /\ hist[3].op = "Metadata"
    /\ fonts[sources[1].f].variations = <<<<1, 2>>>>
    /\ hist[3].value = [Family |-> "Family", Weight |-> 0]

-----------------------------------------------------------------------------
(* Properties of loading (LoadSpec) *)

\* the addresses of the sources the load attempts returned
Returned == UNION {{hist[i].ids[k] : k \in 1..Len(hist[i].ids)} : i \in 1..Len(hist)}

\* C23: loading takes any reader: one that is a font.Resource goes to the
\* parser as it is and the conversion reads nothing from it; any other is
\* read to its end and the parser gets the buffered bytes, which are the
\* reader's; when that read fails the read error is returned and no Face
\* Source is made.
C23_LoadAcceptsAnyReader ==
    /\ \A i \in 1..Len(hist) :
          LET c == hist[i]
          IN  /\ c.source.resource
                    => (~c.read /\ c.from = "source" /\ c.parsed = c.source.data)
              /\ (~c.source.resource /\ ~c.source.fails)
                    => (c.read /\ c.from = "buffer" /\ c.parsed = c.source.data)
              /\ (~c.source.resource /\ c.source.fails)
                    => (c.read /\ c.from = "none" /\ c.err = "read" /\ c.ids = <<>>)
    /\ DOMAIN sources = {1} \cup Returned

\* a font loaded from a plain stream, then a stream whose read fails
C23_Witness ==
    /\ Len(hist) = 2
    /\ ~hist[1].source.resource /\ hist[1].err = "" /\ hist[1].from = "buffer"
    /\ hist[1].ids = <<2>>
    /\ ~hist[2].source.resource /\ hist[2].source.fails /\ hist[2].err = "read"
    /\ DOMAIN sources = {1, 2}

\* why a load of the file through the reader must fail, if it must
MustFail(c) ==
    \/ c.source.fails
    \/ c.source.data = <<>>
    \/ IF c.op = "FromCollection"
       THEN \E k \in 1..Len(c.source.data) : c.source.data[k] = "bad"
       ELSE c.source.data[1] = "bad"

\* C24: a load returns either sources and no error or an error and no
\* source.  NewGoTextFaceSource returns one source; the collection load
\* returns one source per font of the file in the file's order, or none at
\* all when one font fails to parse.  Every source returned is the owner of
\* a font and a shaping cache of its own, and a load, failed or not, changes
\* no source, font or cache that existed before it.
C24_LoadIsAllOrNothing ==
    [][/\ \A i \in 1..Len(hist') :
              LET c == hist'[i]
              IN  /\ (c.err # "") <=> MustFail(c)
                  /\ (c.err # "") <=> (c.ids = <<>>)
                  /\ (c.err = "" /\ c.op = "NewGoTextFaceSource") => Len(c.ids) = 1
                  /\ (c.err = "" /\ c.op = "FromCollection")
                        => /\ Len(c.ids) = Len(c.source.data)
                           /\ \A k \in 1..Len(c.ids) :
                                 fonts'[sources'[c.ids[k]].f].Font.index = k
                  /\ \A k \in 1..Len(c.ids) : sources'[c.ids[k]].addr = c.ids[k]
       /\ \A g, h \in DOMAIN sources' :
              (g # h) => /\ sources'[g].f # sources'[h].f
                         /\ sources'[g].outputCache # sources'[h].outputCache
       /\ \A g \in DOMAIN sources : sources'[g] = sources[g]
       /\ \A f \in 1..Len(fonts) : fonts'[f] = fonts[f]
       /\ \A c \in 1..Len(caches) : caches'[c] = caches[c]
       /\ (Len(hist') = Len(hist) + 1 /\ Last(hist').err # "")
              => UNCHANGED <<sources, fonts, caches, maps>>]_vars

\* a collection of two fonts loaded, then a collection whose second font is
\* malformed refused: the two sources of the first load are all there are
C24_Witness ==
    /\ Len(hist) = 2
    /\ hist[1].op = "FromCollection" /\ hist[1].source.data = <<"ok", "ok">>
    /\ hist[1].err = "" /\ hist[1].ids = <<2, 3>>
    /\ hist[2].op = "FromCollection" /\ hist[2].source.data = <<"ok", "bad">>
    /\ hist[2].err = "parse" /\ hist[2].ids = <<>>
    /\ DOMAIN sources = 1..3
    /\ sources[2].outputCache # sources[3].outputCache

-----------------------------------------------------------------------------
(* Properties of the shaping pipeline with clusters (ClusterSpec) *)

\* C25: every glyph of a shape result has 0 <= startIndex <= endIndex <=
\* len(text) in bytes; startIndex is the byte offset of the scalar at the
\* glyph's cluster index in the whole text and endIndex the byte offset of
\* the scalar at cluster index plus rune count (len(text) past the last
\* scalar), so a cluster of several scalars spans all their bytes; with
\* clusters inside the text no call fails on an index.
C25_ClusterSpanInBytes ==
    \A i \in 1..Len(hist) :
        /\ hist[i].outcome = "ok"
        /\ \A k \in 1..Len(hist[i].value.glyphs) :
              LET g    == hist[i].value.glyphs[k]
                  text == hist[i].text
                  c    == g.shapingGlyph.ClusterIndex
                  n    == g.shapingGlyph.RuneCount
              IN  /\ 0 <= g.startIndex /\ g.startIndex <= g.endIndex
                  /\ g.endIndex <= TextBytes(text)
                  /\ c >= 0 /\ n >= 0 /\ c + n <= Len(text)
                  /\ g.startIndex = TextBytes(SubSeq(text, 1, c))
                  /\ g.endIndex = TextBytes(SubSeq(text, 1, c + n))
                  /\ g.endIndex - g.startIndex = TextBytes(SubSeq(text, c + 1, c + n))

\* "alef", "e", combining accent: the glyph of the last two scalars spans
\* the bytes 2 to 5
C25_Witness ==
    /\ Len(hist) = 1 /\ 1 \in Shaped
    /\ hist[1].text = <<3, 4, 5>>
    /\ \E k \in 1..Len(hist[1].value.glyphs) :
          /\ hist[1].value.glyphs[k].shapingGlyph.RuneCount = 2
          /\ hist[1].value.glyphs[k].startIndex = 2
          /\ hist[1].value.glyphs[k].endIndex = 5

\* the glyph records of a result that come from its output o, in the
\* result's order
GlyphsFrom(v, o) ==
    LET before == Len(Flatten([m \in 1..(o - 1) |-> v.outputs[m].Glyphs]))
    IN  [k \in 1..Len(v.outputs[o].Glyphs) |-> v.glyphs[before + k]]

DataOf(i, g) == GlyphData(g.shapingGlyph.GlyphID, hist[i].face.variations)

ZeroRectangle == [Min |-> Point(0, 0), Max |-> Point(0, 0)]

\* C27: a glyph's data has one form; a glyph without a vector outline, a
\* bitmap whose outline is absent or data of none of the three forms, does
\* not fail the call: its record has no scaled segment and the zero
\* rectangle as bounds, every glyph the shaper returned has its record, and
\* a glyph with an outline of any form keeps all its segments.
C27_NoOutlineIsEmptyNotError ==
    \A i \in 1..Len(hist) :
        /\ hist[i].outcome = "ok"
        /\ Len(hist[i].value.glyphs)
              = Len(Flatten([o \in 1..Len(hist[i].value.outputs) |->
                                hist[i].value.outputs[o].Glyphs]))
        /\ \A k \in 1..Len(hist[i].value.glyphs) :
              LET g    == hist[i].value.glyphs[k]
                  data == DataOf(i, g)
              IN  /\ data.kind \in {"GlyphOutline", "GlyphSVG", "GlyphBitmap", "nil"}
                  /\ IF data.kind = "nil" \/ (data.kind = "GlyphBitmap" /\ ~data.hasOutline)
                     THEN g.scaledSegments = <<>> /\ g.bounds = ZeroRectangle
                     ELSE /\ Len(g.scaledSegments) = Len(data.Segments)
                          /\ g.scaledSegments # <<>>

\* a bitmap glyph without outline between a glyph with a filled outline and
\* a glyph without data
C27_Witness ==
    /\ Len(hist) = 1 /\ 1 \in Shaped
    /\ hist[1].text = <<1, 3, 5>>
    /\ hist[1].face.Direction = "LeftToRight"
    /\ Len(hist[1].value.glyphs) = 3
    /\ Len(hist[1].value.glyphs[1].scaledSegments) = 2
    /\ hist[1].value.glyphs[2].scaledSegments = <<>>
    /\ hist[1].value.glyphs[2].bounds = ZeroRectangle
    /\ hist[1].value.glyphs[3].scaledSegments = <<>>

\* the sideways transform of a glyph's outline in an output: a quarter turn
\* and the glyph's vertical offset in font units
SidewaysOf(segs, gl, out, f) == Sideways(segs, ((0 - gl.YOffset) * Upem(f)) \div out.Size)

\* C28: in an output whose direction is sideways the outline of every
\* glyph, whichever form its data has, goes through the sideways transform
\* before it is scaled; in an output of any other direction no outline does.
C28_SidewaysAppliesToEveryOutline ==
    \A i \in Shaped :
        \A k \in 1..Len(hist[i].value.glyphs) :
            LET v    == hist[i].value
                g    == v.glyphs[k]
                out  == v.outputs[OutputOf(v, k)]
                data == DataOf(i, g)
                segs == IF data.hasOutline THEN data.Segments ELSE <<>>
            IN  g.scaledSegments =
                    IF IsSideways(out.Direction)
                    THEN scaleSegments(SidewaysOf(segs, g.shapingGlyph, out, sources[1].f),
                                       out.Size)
                    ELSE scaleSegments(segs, out.Size)

\* C29: on a miss the shaper runs once per sub-run, the outputs are the
\* sub-runs' outputs in processing order, and the glyph list is the
\* concatenation of the outputs' glyphs, output after output and inside an
\* output in its order: as many records as the outputs have glyphs, the
\* k-th record holding the k-th glyph.
C29_GlyphsAreConcatenation ==
    \A i \in Shaped :
        LET v      == hist[i].value
            concat == Flatten([o \in 1..Len(v.outputs) |-> v.outputs[o].Glyphs])
            runs   == SubRuns(hist[i].text, hist[i].face)
        IN  /\ hist[i].work.Shape = Len(runs)
            /\ Len(v.outputs) = Len(runs)
            /\ {<<v.outputs[o].RunStart, v.outputs[o].RunEnd>> : o \in 1..Len(v.outputs)}
                  = {<<runs[r].RunStart, runs[r].RunEnd>> : r \in 1..Len(runs)}
            /\ hist[i].work.GlyphData = Len(concat)
            /\ Len(v.glyphs) = Len(concat)
            /\ \A k \in 1..Len(concat) :
                  /\ v.glyphs[k].shapingGlyph = concat[k]
                  /\ v.glyphs[k].shapingGlyph.GlyphID = concat[k].GlyphID

\* a right-to-left text of two sub-runs, the first with a two-glyph
\* cluster: two outputs, three glyph records in the outputs' order
C29_Witness ==
    /\ Len(hist) = 1 /\ 1 \in Shaped
    /\ hist[1].face.Direction = "RightToLeft"
    /\ hist[1].text = <<7, 3>>
    /\ hist[1].work.Shape = 2
    /\ Len(hist[1].value.outputs) = 2
    /\ Len(hist[1].value.glyphs) = 3
    /\ hist[1].value.glyphs[1].shapingGlyph.GlyphID = 3
    /\ hist[1].value.glyphs[2].shapingGlyph.GlyphID = 2
    /\ hist[1].value.glyphs[3].shapingGlyph.GlyphID = 1

\* C30: segmentation with the single-font map is total and ordered: every
\* scalar of the text lies in exactly one sub-run, no sub-run is empty, the
\* sub-runs follow one another in text order (last to first once a
\* right-to-left style has reversed them), and every sub-run is shaped with
\* the font of the Face Source.
C30_SegmentationTotalOrderedOneFont ==
    \A i \in Shaped :
        LET outs == hist[i].value.outputs
            n    == Len(hist[i].text)
            rtl  == hist[i].face.Direction = "RightToLeft"
        IN  /\ \A p \in 1..n :
                  Cardinality({o \in 1..Len(outs) :
                                  outs[o].RunStart < p /\ p <= outs[o].RunEnd}) = 1
            /\ \A o \in 1..Len(outs) :
                  /\ 0 <= outs[o].RunStart /\ outs[o].RunStart < outs[o].RunEnd
                  /\ outs[o].RunEnd <= n
                  /\ outs[o].Face = sources[hist[i].g].f
            /\ \A o \in 1..(Len(outs) - 1) :
                  IF rtl THEN outs[o].RunStart = outs[o + 1].RunEnd
                  ELSE outs[o].RunEnd = outs[o + 1].RunStart

\* a Latin, a Hebrew and a Latin scalar: three sub-runs in text order, all
\* with the source's font
C30_Witness ==
    /\ Len(hist) = 1 /\ 1 \in Shaped
    /\ hist[1].text = <<1, 3, 4>>
    /\ hist[1].face.Direction = "LeftToRight"
    /\ Len(hist[1].value.outputs) = 3
    /\ \A o \in 1..3 : /\ hist[1].value.outputs[o].RunStart = o - 1
                        /\ hist[1].value.outputs[o].Face = sources[1].f

-----------------------------------------------------------------------------
(* Properties of the shaping cache key (KeySpec) *)

\* C17: the shaping cache key holds the size in fixed-point form: of two
\* consecutive shape calls with the same text and styles that differ only in
\* size values with the same 26.6 shaping size, which give the shaper the
\* same input, the keys are equal and the second call is a hit.
C17_KeySizeIsFixedPoint ==
    \A i \in Consecutive("shape") :
        (/\ hist[i].text = hist[i + 1].text
         /\ DiffFields(hist[i].face, hist[i + 1].face) \subseteq {"Size"}
         /\ float64ToFixed26_6(hist[i].face.Size) = float64ToFixed26_6(hist[i + 1].face.Size)
         /\ ShapingInput(hist[i].text, hist[i].face, sources[1].f)
               = ShapingInput(hist[i + 1].text, hist[i + 1].face, sources[1].f))
            => /\ hist[i].key = hist[i + 1].key
               /\ hist[i + 1].hit

\* the entries of a feature or variation list, whatever order they came in
Entries(s) == {s[k] : k \in 1..Len(s)}

\* every style field equal by value, features and variations as sets of
\* entries
EqualByValue(f1, f2) ==
    /\ f1.Size = f2.Size
    /\ f1.Direction = f2.Direction
    /\ f1.Language = f2.Language
    /\ f1.Script = f2.Script
    /\ Entries(f1.variations) = Entries(f2.variations)
    /\ Entries(f1.features) = Entries(f2.features)

\* C18: two shape calls have equal shaping cache keys exactly when their
\* texts are equal and their styles are equal by value, whatever face object
\* carries the values and in whatever order its feature and variation
\* entries were supplied; the second of two consecutive such calls returns
\* the entry the first created.
C18_EquivalentIffEqualByValue ==
    /\ \A i, j \in 1..Len(hist) :
          (hist[i].key = hist[j].key)
              <=> (hist[i].text = hist[j].text /\ EqualByValue(hist[i].face, hist[j].face))
    /\ \A i \in Consecutive("shape") :
          (hist[i].text = hist[i + 1].text /\ EqualByValue(hist[i].face, hist[i + 1].face))
              => (hist[i + 1].hit /\ hist[i + 1].value = hist[i].value)

\* the same two variation axes supplied in opposite orders: the second call
\* hits the entry of the first
C18_Witness ==
    /\ Len(hist) = 2
    /\ hist[1].text = <<2, 3>> /\ hist[2].text = <<2, 3>>
    /\ hist[1].face.variations = <<<<1, 1>>, <<2, 1>>>>
    /\ hist[2].face.variations = <<<<2, 1>>, <<1, 1>>>>
    /\ ~hist[1].hit
    /\ hist[2].hit /\ hist[2].value = hist[1].value

-----------------------------------------------------------------------------
(* Properties of image requests (ImageSpec) *)

\* the earlier requests that went to the same map and size for the same
\* glyph id, offsets and variations as request j
SameImageRequest(j) ==
    {i \in 1..(j - 1) : /\ hist[i].map = hist[j].map
                        /\ hist[i].face.Size = hist[j].face.Size
                        /\ hist[i].req = hist[j].req}

\* C12: requests that differ in glyph id, in either offset or in the
\* variation string are distinct entries: the image a request returns is one
\* rendered for exactly its glyph id, offsets and variations, never the image
\* stored for another key, and a request whose key was not asked of the
\* size's cache before invokes its own create callback.
C12_DistinctKeysDistinctEntries ==
    \A j \in 1..Len(hist) :
        /\ hist[j].value.req = hist[j].req
        /\ hist[j].hit => \E i \in SameImageRequest(j) : hist[i].value = hist[j].value
        /\ (SameImageRequest(j) = {}) => ~hist[j].hit

\* two retained requests that differ only in the horizontal offset, and a
\* third that gets the first one's image back
C12_Witness ==
    /\ Len(hist) = 3
    /\ hist[1].req = <<1, 0, 0, <<<<1, 1>>>>>> /\ hist[1].cacheable
    /\ hist[2].req = <<1, 16, 0, <<<<1, 1>>>>>> /\ hist[2].cacheable
    /\ hist[3].req = hist[1].req
    /\ hist[1].face = hist[2].face /\ hist[2].face = hist[3].face
    /\ ~hist[2].hit /\ hist[2].value # hist[1].value
    /\ hist[3].hit /\ hist[3].value = hist[1].value
    /\ Len(caches[hist[1].cache].values) = 2

----------------------------------------------------------------------------
(* Properties of the generic cache *)

\* the keys of the accesses that use an entry: hits and cacheable computes
Uses(l) == SelectSeq(l, LAMBDA a : a.hit \/ a.cacheable)

\* the n most recently used distinct keys of a sequence of uses
RECURSIVE Recent(_, _)
Recent(l, n) ==
    IF l = <<>> \/ n = 0 THEN {}
    ELSE LET k == Last(l).key
         IN  {k} \cup Recent(SelectSeq(SubSeq(l, 1, Len(l) - 1), LAMBDA a : a.key # k), n - 1)

\* C8: a cache of capacity N retains at most N entries, and they are those
\* of the N most recently used keys: after capacity + k distinct keys the k
\* least recently used are gone.  A lookup of a retained key hits and
\* returns the retained value, a lookup of any other key computes.  The
\* shaping cache has capacity 512.
C8_EvictsLeastRecentlyUsed ==
    LET c == caches[TestCache]
    IN  /\ Len(c.values) <= c.cap
        /\ CacheKeys(c) = Recent(Uses(log), c.cap)
        /\ \A i \in 1..Len(log) :
              log[i].hit <=> log[i].key \in Recent(Uses(SubSeq(log, 1, i - 1)), c.cap)
        /\ \A i, j \in 1..Len(log) :
              (i < j /\ log[j].hit /\ log[i].key = log[j].key
                 /\ \A m \in (i + 1)..(j - 1) : log[m].key # log[i].key)
                  => log[j].value = log[i].value
        /\ caches[sources[1].outputCache].cap = 512

\* capacity + 1 distinct keys went in, the oldest is gone and is recomputed
C8_Witness ==
    LET c == caches[TestCache]
    IN  /\ Len(log) = c.cap + 2
        /\ \A i \in 1..(c.cap + 1) : log[i].key = i /\ log[i].cacheable /\ ~log[i].hit
        /\ CacheKeys(c) = 2..(c.cap + 1)
        /\ log[c.cap + 2].key = 1 /\ ~log[c.cap + 2].hit
        /\ c.cap = MaxCap

====
